---- MODULE Spec2Model ----
(***************************************************************************)
(* Model of backend/scripts/create_consolidated_migration.py, of          *)
(* backend/scripts/check_migration_order.py and of                        *)
(* parse_xbrl_with_local_dts of the two arelle parser scripts of          *)
(* backend/crates/econ-graph-sec-crawler/scripts.                         *)
(*                                                                         *)
(* Text is a sequence of tokens.  A token is either one punctuation or    *)
(* whitespace character (" ", "\n", ".", "(", ")", ";", ",", "'", "$"), the *)
(* comment marker "--", or a maximal run of word characters (\w+).  The   *)
(* regular expressions of extract_ddl_statements are evaluated on that    *)
(* text as Python's re module evaluates them: leftmost match, greedy      *)
(* quantifiers, non-overlapping finditer scans.                           *)
(***************************************************************************)
EXTENDS Integers, Sequences, FiniteSets, TLC

VARIABLES
    dump,           \* the statements the schema dump was written from (fragment ids)
    content,        \* the text of the schema dump (f.read())
    pc,             \* position of the run
    statements,     \* the dict returned by extract_ddl_statements
    migration_sql,  \* the list of lines built by generate_consolidated_migration
    output,         \* '\n'.join(migration_sql)
    reextracted,    \* extract_ddl_statements applied to output as a new input
    argv,           \* sys.argv[1:]
    out_file,       \* the file at the fixed output path
    stdout,         \* what the run has printed
    exit_status,    \* exit status of the process, "none" while it runs
    dir_exists,     \* check_migration_order.py: the migrations directory exists
    listing,        \* its entries in the order iterdir() gives them (entry ids)
    migrations,     \* the list returned by get_migration_files
    order_result,       \* what check_migration_order returned
    duplicate_result,   \* what check_for_duplicate_timestamps returned
    naming_result,      \* what check_migration_naming_conventions returned
    all_checks_passed,  \* main's all_checks_passed
    script,         \* the arelle parser script: "enhanced" or "simple"
    call,           \* the arguments of parse_xbrl_with_local_dts and the
                    \* working directory in effect at the call
    fs,             \* the files that exist: location -> content
    dirs,           \* the directories that exist
    cwd,            \* the working directory of the process
    temp_dir,       \* parse_xbrl_with_local_dts: temp_dir, "None" before it is set
    original_cwd,   \* its original_cwd
    model_xbrl,     \* what ctrl.modelManager.load returned
    exc,            \* the exception that is propagating, "none" if there is none
    result          \* the dictionary the function is returning

\* the state of check_migration_order.py
validator_vars ==
    <<dir_exists, listing, migrations, order_result, duplicate_result, naming_result,
      all_checks_passed>>

\* the state of create_consolidated_migration.py
ddl_vars ==
    <<dump, content, statements, migration_sql, output, reextracted, argv, out_file>>

\* the state of a call of parse_xbrl_with_local_dts
parser_vars ==
    <<script, call, fs, dirs, cwd, temp_dir, original_cwd, model_xbrl, exc, result>>

vars ==
    <<dump, content, pc, statements, migration_sql, output, reextracted,
      argv, out_file, stdout, exit_status, validator_vars, parser_vars>>

-----------------------------------------------------------------------------
(* Bounds *)

\* number of statements in a schema dump
MaxStmts == 2
\* number of entries, over all categories, of a directly built statements dict
MaxEntries == 3

-----------------------------------------------------------------------------
(* Characters and character classes *)

NL == "\n"

\* tokens that are not made of word characters
NonWord == {" ", "\n", ".", "(", ")", ";", ",", "'", "--", "$"}

\* \s
Space == {" ", "\n"}

\* end (exclusive) of the longest run of tokens from i that are in S (inS) or not in S
SpanEnd(text, i, S, inS) ==
    IF i > Len(text) THEN i
    ELSE CHOOSE j \in i..(Len(text) + 1) :
            /\ j = Len(text) + 1 \/ ((text[j] \in S) # inS)
            /\ \A k \in i..(j - 1) : (text[k] \in S) = inS

\* the literal lit stands at position i of text
LitAt(text, i, lit) ==
    /\ i + Len(lit) - 1 <= Len(text)
    /\ text[i] = lit[1]
    /\ SubSeq(text, i, i + Len(lit) - 1) = lit

Slice(text, i, j) == SubSeq(text, i, j - 1)

\* str.strip()
RECURSIVE LStrip(_)
LStrip(s) == IF s # <<>> /\ Head(s) \in Space THEN LStrip(Tail(s)) ELSE s

RECURSIVE RStrip(_)
RStrip(s) ==
    IF s # <<>> /\ s[Len(s)] \in Space THEN RStrip(SubSeq(s, 1, Len(s) - 1)) ELSE s

Strip(s) == RStrip(LStrip(s))

\* the k-th smallest element of a set of numbers
Kth(S, k) == CHOOSE p \in S : Cardinality({q \in S : q < p}) = k - 1

\* str.split(sep): the pieces between the occurrences of sep, empty pieces kept
Split(s, sep) ==
    LET at    == {i \in 1..Len(s) : s[i] = sep}
        n     == Cardinality(at)
        \* position of the k-th separator; 0 before the first, Len(s) + 1 after the last
        pos(k) == IF k = 0 THEN 0
                  ELSE IF k = n + 1 THEN Len(s) + 1
                  ELSE Kth(at, k)
    IN  [k \in 1..(n + 1) |-> SubSeq(s, pos(k - 1) + 1, pos(k) - 1)]

\* sep.join(lines)
RECURSIVE Join(_, _)
Join(lines, sep) ==
    IF lines = <<>> THEN <<>>
    ELSE IF Len(lines) = 1 THEN lines[1]
    ELSE lines[1] \o <<sep>> \o Join(Tail(lines), sep)

RECURSIVE Concat(_)
Concat(ss) == IF ss = <<>> THEN <<>> ELSE Head(ss) \o Concat(Tail(ss))

-----------------------------------------------------------------------------
(* Regular expressions.  A pattern is the sequence of its elements: literal *)
(* text, a greedy run over a character class, captured or not, or an        *)
(* optional non-capturing group.  A match attempt gives ok, the position    *)
(* after the match, and the captured groups.                                *)

NoMatch == [ok |-> FALSE, end |-> 0, groups |-> <<>>]
Matched(e, g) == [ok |-> TRUE, end |-> e, groups |-> g]

Elem(t, lit, S, inS, min, cap, sub) ==
    [t |-> t, lit |-> lit, S |-> S, inS |-> inS, min |-> min, cap |-> cap, sub |-> sub]

\* literal text
Lit(lit) == Elem("lit", lit, {}, FALSE, 0, FALSE, <<>>)
\* (\w+)
Word == Elem("run", <<>>, NonWord, FALSE, 1, TRUE, <<>>)
\* \s+
Spaces == Elem("run", <<>>, Space, TRUE, 1, FALSE, <<>>)
\* [^c]* or [^c]+, captured or not
Except(c, min, cap) == Elem("run", <<>>, {c}, FALSE, min, cap, <<>>)
\* (?: sub )?
Optional(sub) == Elem("opt", <<>>, {}, FALSE, 0, FALSE, sub)

\* The attempt to match the elements pat[k..] at position pos, groups being the
\* groups captured so far.  A run is greedy: the longest run is tried first and
\* given back token by token while the rest of the pattern does not match; an
\* optional group is tried first with the group, then without it.
RECURSIVE MatchFrom(_, _, _, _, _)
MatchFrom(pat, k, text, pos, groups) ==
    IF k > Len(pat) THEN Matched(pos, groups)
    ELSE IF pat[k].t = "lit"
    THEN IF LitAt(text, pos, pat[k].lit)
         THEN MatchFrom(pat, k + 1, text, pos + Len(pat[k].lit), groups)
         ELSE NoMatch
    ELSE IF pat[k].t = "run"
    THEN LET longest == SpanEnd(text, pos, pat[k].S, pat[k].inS)
             rest(e) == MatchFrom(pat, k + 1, text, e,
                                  IF pat[k].cap THEN Append(groups, Slice(text, pos, e))
                                  ELSE groups)
             ends    == {e \in (pos + pat[k].min)..longest : rest(e).ok}
         IN  IF ends = {} THEN NoMatch
             ELSE rest(CHOOSE e \in ends : \A f \in ends : f <= e)
    ELSE LET with == MatchFrom(pat[k].sub \o SubSeq(pat, k + 1, Len(pat)), 1, text, pos,
                               groups)
         IN  IF with.ok THEN with ELSE MatchFrom(pat, k + 1, text, pos, groups)

\* r'CREATE EXTENSION IF NOT EXISTS (\w+) WITH SCHEMA public;'
ExtensionLit1 == <<"CREATE", " ", "EXTENSION", " ", "IF", " ", "NOT", " ", "EXISTS", " ">>
ExtensionLit2 == <<" ", "WITH", " ", "SCHEMA", " ", "public", ";">>

extension_pattern == <<Lit(ExtensionLit1), Word, Lit(ExtensionLit2)>>

\* r'CREATE TYPE public\.(\w+) AS ENUM \(([^)]+)\);'
TypeLit1 == <<"CREATE", " ", "TYPE", " ", "public", ".">>
TypeLit2 == <<" ", "AS", " ", "ENUM", " ", "(">>

type_pattern ==
    <<Lit(TypeLit1), Word, Lit(TypeLit2), Except(")", 1, TRUE), Lit(<<")", ";">>)>>

\* r'CREATE TABLE public\.(\w+) \(([^;]+)\);'
TableLit1 == <<"CREATE", " ", "TABLE", " ", "public", ".">>
TableLit2 == <<" ", "(">>

\* the pattern without its closing '\);': a block that runs to the end of the
\* text is taken as a table
table_pattern_unclosed ==
    <<Lit(TableLit1), Word, Lit(TableLit2), Except(";", 1, TRUE)>>

table_pattern ==
    <<Lit(TableLit1), Word, Lit(TableLit2), Except(";", 1, TRUE), Lit(<<")", ";">>)>>

\* r'CREATE INDEX (\w+) ON public\.(\w+) USING (\w+) \(([^)]+)\)(?: WHERE \([^)]+\))?;'
IndexLit1 == <<"CREATE", " ", "INDEX", " ">>
IndexLit2 == <<" ", "ON", " ", "public", ".">>
IndexLit3 == <<" ", "USING", " ">>
IndexLit4 == <<" ", "(">>
IndexLit5 == <<" ", "WHERE", " ", "(">>

index_pattern ==
    <<Lit(IndexLit1), Word, Lit(IndexLit2), Word, Lit(IndexLit3), Word, Lit(IndexLit4),
      Except(")", 1, TRUE), Lit(<<")">>),
      Optional(<<Lit(IndexLit5), Except(")", 1, FALSE), Lit(<<")">>)>>),
      Lit(<<";">>)>>

\* r'ALTER TABLE ONLY public\.(\w+)\s+ADD CONSTRAINT (\w+) ([^;]+);'
ConstraintLit1 == <<"ALTER", " ", "TABLE", " ", "ONLY", " ", "public", ".">>
ConstraintLit2 == <<"ADD", " ", "CONSTRAINT", " ">>

constraint_pattern ==
    <<Lit(ConstraintLit1), Word, Spaces, Lit(ConstraintLit2), Word, Lit(<<" ">>),
      Except(";", 1, TRUE), Lit(<<";">>)>>

\* r'CREATE TRIGGER (\w+) ([^;]+);'
TriggerLit1 == <<"CREATE", " ", "TRIGGER", " ">>

\* a definition that runs to the last ';' of its line: r'CREATE TRIGGER (\w+) ([^\n]+);'
trigger_pattern_to_line_end ==
    <<Lit(TriggerLit1), Word, Lit(<<" ">>), Except("\n", 1, TRUE), Lit(<<";">>)>>

trigger_pattern ==
    <<Lit(TriggerLit1), Word, Lit(<<" ">>), Except(";", 1, TRUE), Lit(<<";">>)>>

\* r'CREATE OR REPLACE FUNCTION public\.(\w+)\([^)]*\) RETURNS ([^;]+);'
FunctionLit1 == <<"CREATE", " ", "OR", " ", "REPLACE", " ", "FUNCTION", " ", "public", ".">>
FunctionLit2 == <<")", " ", "RETURNS", " ">>

function_pattern ==
    <<Lit(FunctionLit1), Word, Lit(<<"(">>), Except(")", 0, FALSE), Lit(FunctionLit2),
      Except(";", 1, TRUE), Lit(<<";">>)>>

MatchAt(pat, text, s) == MatchFrom(pat, 1, text, s, <<>>)

\* re.search from position s: the leftmost position at which the pattern matches,
\* Len(text) + 1 when there is none
SearchFrom(pat, text, s) ==
    CHOOSE j \in s..(Len(text) + 1) :
        /\ j = Len(text) + 1 \/ MatchAt(pat, text, j).ok
        /\ \A k \in s..(j - 1) : ~MatchAt(pat, text, k).ok

\* re.finditer(pattern, content): the matches from left to right, each search
\* starting where the previous match ended
RECURSIVE FindIter(_, _, _)
FindIter(pat, text, s) ==
    IF s > Len(text) THEN <<>>
    ELSE LET j == SearchFrom(pat, text, s)
         IN  IF j > Len(text) THEN <<>>
             ELSE <<MatchAt(pat, text, j).groups>>
                  \o FindIter(pat, text, MatchAt(pat, text, j).end)

-----------------------------------------------------------------------------
(* extract_ddl_statements *)

BookkeepingTable == <<"__diesel_schema_migrations">>

\* the statements dict as it is before any pattern is applied
EmptyStatements ==
    [raised |-> FALSE, extensions |-> <<>>, types |-> <<>>, tables |-> <<>>,
     indexes |-> <<>>, constraints |-> <<>>, triggers |-> <<>>, functions |-> <<>>]

\* the call did not return: an exception left extract_ddl_statements
Raised == [EmptyStatements EXCEPT !.raised = TRUE]

\* match.group(n): IndexError ("no such group") when the pattern has fewer groups
GroupExists(groups, n) == n <= Len(groups)

\* the names collected into a set: a name found twice is kept once
ExtractExtensions_Dedup(text) ==
    LET ms    == FindIter(extension_pattern, text, 1)
        first == {i \in 1..Len(ms) : \A k \in 1..(i - 1) : ms[k] # ms[i]}
    IN  [i \in 1..Cardinality(first) |-> ms[Kth(first, i)][1]]

\* statements['extensions'] = re.findall(extension_pattern, content)
ExtractExtensions(text) ==
    LET ms == FindIter(extension_pattern, text, 1)
    IN  [i \in 1..Len(ms) |-> ms[i][1]]

ExtractTypes(text) ==
    LET ms == FindIter(type_pattern, text, 1)
    IN  [i \in 1..Len(ms) |-> <<ms[i][1], Strip(ms[i][2])>>]

\* if table_name != '__diesel_schema_migrations': append
TableKept(g) == g[1] # BookkeepingTable

ExtractTables(text) ==
    LET ms   == FindIter(table_pattern, text, 1)
        kept == SelectSeq(ms, TableKept)
    IN  [i \in 1..Len(kept) |-> <<kept[i][1], Strip(kept[i][2])>>]

\* where_clause = match.group(5) if match.group(5) else ''
IndexEntryRaises(g) == ~GroupExists(g, 5)

IndexEntry(g) ==
    <<g[1], g[2], g[3], g[4], IF GroupExists(g, 5) THEN g[5] ELSE <<>>>>

ExtractIndexes(text) ==
    LET ms == FindIter(index_pattern, text, 1)
    IN  [i \in 1..Len(ms) |-> IndexEntry(ms[i])]

IndexesRaise(text) ==
    LET ms == FindIter(index_pattern, text, 1)
    IN  \E i \in 1..Len(ms) : IndexEntryRaises(ms[i])

ExtractConstraints(text) == FindIter(constraint_pattern, text, 1)

ExtractTriggers(text) == FindIter(trigger_pattern, text, 1)

ExtractFunctions(text) == FindIter(function_pattern, text, 1)

extract_ddl_statements(text) ==
    IF IndexesRaise(text) THEN Raised
    ELSE [raised      |-> FALSE,
          extensions  |-> ExtractExtensions(text),
          types       |-> ExtractTypes(text),
          tables      |-> ExtractTables(text),
          indexes     |-> ExtractIndexes(text),
          constraints |-> ExtractConstraints(text),
          triggers    |-> ExtractTriggers(text),
          functions   |-> ExtractFunctions(text)]

-----------------------------------------------------------------------------
(* generate_consolidated_migration: the list migration_sql, each entry with *)
(* the section of the function that appended it.                            *)

Line(sec, text) == [sec |-> sec, text |-> text]

Indent == <<" ", " ", " ", " ">>

HeaderSection ==
    << Line("header", <<"--", " ", "Consolidated", " ", "Initial", " ", "Schema", " ",
                        "Migration">>),
       Line("header", <<"--", " ", "This", " ", "migration", " ", "consolidates", " ",
                        "all", " ", "previous", " ", "migrations", " ", "into", " ", "a",
                        " ", "single", " ", "migration">>),
       Line("header", <<"--", " ", "Generated", " ", "from", " ", "target", " ", "schema",
                        " ", "dump">>),
       Line("header", <<>>) >>

ExtensionLine(ext) == Line("extensions", ExtensionLit1 \o ext \o ExtensionLit2)

ExtensionsSection(st) ==
    IF st.extensions = <<>> THEN <<>>
    ELSE <<Line("extensions", <<"--", " ", "Extensions">>)>>
         \o [i \in 1..Len(st.extensions) |-> ExtensionLine(st.extensions[i])]
         \o <<Line("extensions", <<>>)>>

\* values = [v.strip() for v in enum_values.split(',')]
EnumValues(enum_values) ==
    LET pieces == Split(enum_values, ",")
    IN  [i \in 1..Len(pieces) |-> Strip(pieces[i])]

EnumValueLine(values, i) ==
    IF i = Len(values)
    THEN Line("types", Indent \o values[i])
    ELSE Line("types", Indent \o values[i] \o <<",">>)

TypeLines(t) ==
    LET values == EnumValues(t[2])
    IN  <<Line("types", TypeLit1 \o t[1] \o TypeLit2)>>
        \o [i \in 1..Len(values) |-> EnumValueLine(values, i)]
        \o <<Line("types", <<")", ";">>)>>

TypesSection(st) ==
    IF st.types = <<>> THEN <<>>
    ELSE <<Line("types", <<"--", " ", "Custom", " ", "Types", " ", "(", "ENUMs", ")">>)>>
         \o Concat([i \in 1..Len(st.types) |-> TypeLines(st.types[i])])
         \o <<Line("types", <<>>)>>

\* a body line written under the indent as it stands in the captured body
TableBodyLine_Unstripped(line) == Line("tables", Indent \o line)

TableBodyLine(line) == Line("tables", Indent \o Strip(line))

TableLines(t) ==
    <<Line("tables", TableLit1 \o t[1] \o TableLit2)>>
    \o (LET lines == Split(Strip(t[2]), NL)
        IN  [i \in 1..Len(lines) |-> TableBodyLine(lines[i])])
    \o <<Line("tables", <<")", ";">>)>>

\* the section of the tables without the empty line that ends it
TablesSection_NoBlankLine(st) ==
    IF st.tables = <<>> THEN <<>>
    ELSE <<Line("tables", <<"--", " ", "Tables">>)>>
         \o Concat([i \in 1..Len(st.tables) |-> TableLines(st.tables[i])])

TablesSection(st) ==
    IF st.tables = <<>> THEN <<>>
    ELSE <<Line("tables", <<"--", " ", "Tables">>)>>
         \o Concat([i \in 1..Len(st.tables) |-> TableLines(st.tables[i])])
         \o <<Line("tables", <<>>)>>

ConstraintLines(c) ==
    << Line("constraints", ConstraintLit1 \o c[1]),
       Line("constraints", Indent \o ConstraintLit2 \o c[2] \o <<" ">> \o c[3] \o <<";">>) >>

ConstraintsSection(st) ==
    IF st.constraints = <<>> THEN <<>>
    ELSE <<Line("constraints", <<"--", " ", "Constraints">>)>>
         \o Concat([i \in 1..Len(st.constraints) |-> ConstraintLines(st.constraints[i])])
         \o <<Line("constraints", <<>>)>>

\* where_part = f" WHERE {where_clause}" if where_clause else ""
WherePart(where_clause) ==
    IF where_clause # <<>> THEN <<" ", "WHERE", " ">> \o where_clause ELSE <<>>

IndexLine(x) ==
    Line("indexes",
         IndexLit1 \o x[1] \o IndexLit2 \o x[2] \o IndexLit3 \o x[3] \o IndexLit4
         \o x[4] \o <<")">> \o WherePart(x[5]) \o <<";">>)

IndexesSection(st) ==
    IF st.indexes = <<>> THEN <<>>
    ELSE <<Line("indexes", <<"--", " ", "Indexes">>)>>
         \o [i \in 1..Len(st.indexes) |-> IndexLine(st.indexes[i])]
         \o <<Line("indexes", <<>>)>>

TriggerLine(t) == Line("triggers", TriggerLit1 \o t[1] \o <<" ">> \o t[2] \o <<";">>)

TriggersSection(st) ==
    IF st.triggers = <<>> THEN <<>>
    ELSE <<Line("triggers", <<"--", " ", "Triggers">>)>>
         \o [i \in 1..Len(st.triggers) |-> TriggerLine(st.triggers[i])]
         \o <<Line("triggers", <<>>)>>

FunctionLine(f) ==
    Line("functions", FunctionLit1 \o f[1] \o <<"(">> \o FunctionLit2 \o f[2] \o <<";">>)

FunctionsSection(st) ==
    IF st.functions = <<>> THEN <<>>
    ELSE <<Line("functions", <<"--", " ", "Functions">>)>>
         \o [i \in 1..Len(st.functions) |-> FunctionLine(st.functions[i])]
         \o <<Line("functions", <<>>)>>

\* the emitter with a section for the functions collection too
generate_with_functions(st) ==
    HeaderSection
    \o ExtensionsSection(st)
    \o TypesSection(st)
    \o TablesSection(st)
    \o ConstraintsSection(st)
    \o IndexesSection(st)
    \o TriggersSection(st)
    \o FunctionsSection(st)

\* the sections written in the order of the keys of the statements dict
generate_in_dict_order(st) ==
    HeaderSection
    \o ExtensionsSection(st)
    \o TypesSection(st)
    \o TablesSection(st)
    \o IndexesSection(st)
    \o ConstraintsSection(st)
    \o TriggersSection(st)

generate_consolidated_migration(st) ==
    HeaderSection
    \o ExtensionsSection(st)
    \o TypesSection(st)
    \o TablesSection(st)
    \o ConstraintsSection(st)
    \o IndexesSection(st)
    \o TriggersSection(st)

LineText(l) == l.text

\* return '\n'.join(migration_sql)
JoinLines(lines) == Join([i \in 1..Len(lines) |-> LineText(lines[i])], NL)

-----------------------------------------------------------------------------
(* Schema dumps: the statements of the shapes the patterns recognize, as a  *)
(* schema-only dump writes them, and two statements cut off before their    *)
(* closing parenthesis.                                                     *)

ExtensionStmt(e) == ExtensionLit1 \o e \o ExtensionLit2

TypeStmt(t) ==
    TypeLit1 \o t[1] \o TypeLit2 \o <<NL>> \o Indent \o t[2] \o <<NL, ")", ";">>

TableStmt(t) ==
    TableLit1 \o t[1] \o TableLit2 \o <<NL>> \o Indent \o t[2] \o <<NL, ")", ";">>

IndexStmt(x) ==
    IndexLit1 \o x[1] \o IndexLit2 \o x[2] \o IndexLit3 \o x[3] \o IndexLit4 \o x[4]
    \o <<")">> \o (IF x[5] = <<>> THEN <<>> ELSE <<" ", "WHERE", " ">> \o x[5]) \o <<";">>

ConstraintStmt(c) ==
    ConstraintLit1 \o c[1] \o <<NL>> \o Indent \o ConstraintLit2 \o c[2] \o <<" ">>
    \o c[3] \o <<";">>

TriggerStmt(t) == TriggerLit1 \o t[1] \o <<" ">> \o t[2] \o <<";">>

FunctionStmt(f) == FunctionLit1 \o f[1] \o <<"(">> \o FunctionLit2 \o f[2] \o <<";">>

\* a CREATE TABLE block that ends before its closing parenthesis
UnterminatedTable(t) == TableLit1 \o t[1] \o TableLit2 \o <<NL>> \o Indent \o t[2] \o <<NL>>

\* a CREATE INDEX statement that ends before the column list is closed
UnterminatedIndex(x) ==
    IndexLit1 \o x[1] \o IndexLit2 \o x[2] \o IndexLit3 \o x[3] \o IndexLit4 \o x[4]

Stmt(kind, wf, entry, text) == [kind |-> kind, wf |-> wf, entry |-> entry, text |-> text]

EntPgTrgm  == <<"pg_trgm">>
EntPgCrypto == <<"pgcrypto">>
EntStatus ==
    << <<"status">>,
       <<"'", "a", "'", ",", "\n", " ", " ", " ", " ", "'", "b", "'", ",", "\n", " ",
         " ", " ", " ", "'", "c", "'">> >>
EntLabel == << <<"label">>, <<"'", "x", ",", "y", "'">> >>
EntOrders ==
    << <<"orders">>,
       <<"id", " ", "integer", " ", "NOT", " ", "NULL", ",", "\n", " ", " ", " ", " ",
         "status", " ", "public", ".", "status">> >>
EntDiesel ==
    << BookkeepingTable,
       <<"version", " ", "character", " ", "varying", "(", "50", ")", " ", "NOT", " ",
         "NULL">> >>
EntOrdersPkey ==
    << <<"orders">>, <<"orders_pkey">>, <<"PRIMARY", " ", "KEY", " ", "(", "id", ")">> >>
EntDieselPkey ==
    << BookkeepingTable, <<"__diesel_schema_migrations_pkey">>,
       <<"PRIMARY", " ", "KEY", " ", "(", "version", ")">> >>
EntIdxStatus ==
    << <<"idx_orders_status">>, <<"orders">>, <<"btree">>, <<"status">>, <<>> >>
EntIdxPartial ==
    << <<"idx_orders_open">>, <<"orders">>, <<"btree">>, <<"id">>,
       <<"(", "status", " ", "IS", " ", "NOT", " ", "NULL", ")">> >>
EntTrigger ==
    << <<"orders_touch">>,
       <<"BEFORE", " ", "UPDATE", " ", "ON", " ", "public", ".", "orders", " ", "FOR",
         " ", "EACH", " ", "ROW", " ", "EXECUTE", " ", "FUNCTION", " ", "public", ".",
         "touch", "(", ")">> >>
EntFunction ==
    << <<"touch">>, <<"trigger", "\n", " ", " ", " ", " ", "LANGUAGE", " ", "plpgsql">> >>
EntEvents == << <<"events">>, <<"id", " ", "integer", " ", "NOT", " ", "NULL">> >>
EntIdxCut == << <<"idx_cut">>, <<"orders">>, <<"btree">>, <<"id">>, <<>> >>

\* statements with a ';' inside a quoted literal or a dollar-quoted body
EntNotes ==
    << <<"notes">>,
       <<"sep", " ", "text", " ", "DEFAULT", " ", "'", ";", "'", " ", "NOT", " ", "NULL">> >>
EntNotesCheck ==
    << <<"notes">>, <<"notes_sep_check">>,
       <<"CHECK", " ", "(", "sep", " ", "NOT", " ", "IN", " ", "(", "'", ";", "'", ")",
         ")">> >>
EntNotesAudit ==
    << <<"notes_audit">>,
       <<"AFTER", " ", "UPDATE", " ", "ON", " ", "public", ".", "notes", " ", "FOR",
         " ", "EACH", " ", "ROW", " ", "WHEN", " ", "(", "new", ".", "sep", " ", "IS",
         " ", "DISTINCT", " ", "FROM", " ", "'", ";", "'", ")", " ", "EXECUTE", " ",
         "FUNCTION", " ", "public", ".", "touch", "(", ")">> >>
EntTouchBody ==
    << <<"touch">>,
       <<"trigger", "\n", " ", " ", " ", " ", "LANGUAGE", " ", "plpgsql", "\n", " ",
         " ", " ", " ", "AS", " ", "$", "$", " ", "BEGIN", " ", "RETURN", " ", "NEW",
         ";", " ", "END", ";", " ", "$", "$">> >>

Lib ==
    << Stmt("extensions",  TRUE,  EntPgTrgm,     ExtensionStmt(EntPgTrgm)),
       Stmt("extensions",  TRUE,  EntPgCrypto,   ExtensionStmt(EntPgCrypto)),
       Stmt("types",       TRUE,  EntStatus,     TypeStmt(EntStatus)),
       Stmt("types",       TRUE,  EntLabel,      TypeStmt(EntLabel)),
       Stmt("tables",      TRUE,  EntOrders,     TableStmt(EntOrders)),
       Stmt("tables",      TRUE,  EntDiesel,     TableStmt(EntDiesel)),
       Stmt("constraints", TRUE,  EntOrdersPkey, ConstraintStmt(EntOrdersPkey)),
       Stmt("constraints", TRUE,  EntDieselPkey, ConstraintStmt(EntDieselPkey)),
       Stmt("indexes",     TRUE,  EntIdxStatus,  IndexStmt(EntIdxStatus)),
       Stmt("indexes",     TRUE,  EntIdxPartial, IndexStmt(EntIdxPartial)),
       Stmt("triggers",    TRUE,  EntTrigger,    TriggerStmt(EntTrigger)),
       Stmt("functions",   TRUE,  EntFunction,   FunctionStmt(EntFunction)),
       Stmt("tables",      FALSE, EntEvents,     UnterminatedTable(EntEvents)),
       Stmt("indexes",     FALSE, EntIdxCut,     UnterminatedIndex(EntIdxCut)),
       Stmt("tables",      FALSE, EntNotes,      TableStmt(EntNotes)),
       Stmt("constraints", FALSE, EntNotesCheck, ConstraintStmt(EntNotesCheck)),
       Stmt("triggers",    FALSE, EntNotesAudit, TriggerStmt(EntNotesAudit)),
       Stmt("functions",   FALSE, EntTouchBody,  FunctionStmt(EntTouchBody)) >>

\* the statements with a ';' inside quoted text
QuotedIds == 15..18

StmtIds == (1..Len(Lib)) \ QuotedIds
WellFormedIds == {i \in StmtIds : Lib[i].wf}

SeqsUpTo(S, n) == UNION {[1..k -> S] : k \in 0..n}

\* the text of a dump: its statements, one after the other, each ending its line
StmtText(i) == Lib[i].text \o <<NL>>
Render(d) == Concat([i \in 1..Len(d) |-> StmtText(d[i])])

\* the entries of the statements of one category, in the order of the dump
RECURSIVE EntriesOf(_, _)
EntriesOf(d, kind) ==
    IF d = <<>> THEN <<>>
    ELSE (IF Lib[Head(d)].kind = kind /\ Lib[Head(d)].wf
          THEN <<Lib[Head(d)].entry>> ELSE <<>>)
         \o EntriesOf(Tail(d), kind)

\* a statements dict built entry by entry
Categorize(d) ==
    [raised      |-> FALSE,
     extensions  |-> EntriesOf(d, "extensions"),
     types       |-> EntriesOf(d, "types"),
     tables      |-> EntriesOf(d, "tables"),
     indexes     |-> EntriesOf(d, "indexes"),
     constraints |-> EntriesOf(d, "constraints"),
     triggers    |-> EntriesOf(d, "triggers"),
     functions   |-> EntriesOf(d, "functions")]

-----------------------------------------------------------------------------
(* The run of the tool on a schema dump (main), followed by the extraction  *)
(* of its own output as a new input.                                        *)

\* the result of a check: not called yet, or called and what it returned
NotRun == [ran |-> FALSE, ok |-> FALSE]
Returned(ok) == [ran |-> TRUE, ok |-> ok]

\* the dictionary parse_xbrl_with_local_dts returns: none yet, or its
\* "success", its "error_type" and its metadata's "facts_count"
NoResult == [is_dict |-> FALSE, success |-> FALSE, error_type |-> "none", facts_count |-> 0]

\* no call of parse_xbrl_with_local_dts is running
ParserIdle ==
    /\ script = "none"
    /\ call = <<>>
    /\ fs = <<>>
    /\ dirs = {}
    /\ cwd = "none"
    /\ temp_dir = "None"
    /\ original_cwd = "None"
    /\ model_xbrl = <<>>
    /\ exc = "none"
    /\ result = NoResult

\* check_migration_order.py is not running
ValidatorIdle ==
    /\ dir_exists = FALSE
    /\ listing = <<>>
    /\ migrations = <<>>
    /\ order_result = NotRun
    /\ duplicate_result = NotRun
    /\ naming_result = NotRun
    /\ all_checks_passed = TRUE

\* the path of a schema dump that exists, and a path where no file is
SchemaPath == "schema.sql"
MissingPath == "missing.sql"

\* Path(schema_file).exists()
PathExists(path) == path = SchemaPath

\* command lines: no argument, the dump, a missing file, two arguments
ArgvChoices == {<<>>, <<SchemaPath>>, <<MissingPath>>, <<SchemaPath, SchemaPath>>}

\* the output path before the run: no file, or the file a former run wrote
NoFile == [exists |-> FALSE, text |-> <<>>]
StaleFile == [exists |-> TRUE, text |-> <<"--", " ", "stale">>]
File(text) == [exists |-> TRUE, text |-> text]

Msg(kind, counts) == [kind |-> kind, counts |-> counts]

UsageMsg == Msg("usage", <<>>)
NotFoundMsg == Msg("not_found", <<>>)
ProcessingMsg == Msg("processing", <<>>)
WrittenMsg == Msg("written", <<>>)

\* the seven lines printed after "Found:", in the order of the prints
CountsMsg(st) ==
    Msg("counts",
        <<Len(st.extensions), Len(st.types), Len(st.tables), Len(st.indexes),
          Len(st.constraints), Len(st.triggers), Len(st.functions)>>)

Init ==
    /\ dump \in SeqsUpTo(StmtIds, MaxStmts)
    /\ content = Render(dump)
    /\ argv \in ArgvChoices
    /\ out_file \in {NoFile, StaleFile}
    /\ pc = "main"
    /\ statements = EmptyStatements
    /\ migration_sql = <<>>
    /\ output = <<>>
    /\ reextracted = EmptyStatements
    /\ stdout = <<>>
    /\ exit_status = "none"
    /\ ValidatorIdle
    /\ ParserIdle

\* the checks of the command line without the test that the file exists
CheckArgs_NoExistsTest ==
    /\ pc = "main"
    /\ IF Len(argv) # 1
       THEN stdout' = <<UsageMsg>> /\ exit_status' = 1 /\ pc' = "exited"
       ELSE stdout' = <<ProcessingMsg>> /\ exit_status' = exit_status /\ pc' = "start"
    /\ UNCHANGED <<dump, content, statements, migration_sql, output, reextracted,
                   argv, out_file,
                   validator_vars, parser_vars>>

\* the checks of the command line; sys.exit(1) or "Processing schema file"
CheckArgs ==
    /\ pc = "main"
    /\ IF Len(argv) # 1
       THEN stdout' = <<UsageMsg>> /\ exit_status' = 1 /\ pc' = "exited"
       ELSE IF ~PathExists(argv[1])
       THEN stdout' = <<NotFoundMsg>> /\ exit_status' = 1 /\ pc' = "exited"
       ELSE stdout' = <<ProcessingMsg>> /\ exit_status' = exit_status /\ pc' = "start"
    /\ UNCHANGED <<dump, content, statements, migration_sql, output, reextracted,
                   argv, out_file,
                   validator_vars, parser_vars>>

\* a run that opens the output file for writing before it extracts
Extract_OutputOpenedFirst ==
    /\ pc = "start"
    /\ out_file' = File(<<>>)
    /\ statements' = extract_ddl_statements(content)
    /\ IF statements'.raised
       THEN pc' = "crashed" /\ exit_status' = 1 /\ stdout' = stdout
       ELSE /\ pc' = "extracted"
            /\ exit_status' = exit_status
            /\ stdout' = Append(stdout, CountsMsg(statements'))
    /\ UNCHANGED <<dump, content, migration_sql, output, reextracted, argv,
                   validator_vars, parser_vars>>

\* statements = extract_ddl_statements(schema_file), then the counts are printed;
\* an exception leaves main and the interpreter exits with status 1
Extract ==
    /\ pc = "start"
    /\ statements' = extract_ddl_statements(content)
    /\ IF statements'.raised
       THEN pc' = "crashed" /\ exit_status' = 1 /\ stdout' = stdout
       ELSE /\ pc' = "extracted"
            /\ exit_status' = exit_status
            /\ stdout' = Append(stdout, CountsMsg(statements'))
    /\ UNCHANGED <<dump, content, migration_sql, output, reextracted, argv, out_file,
                   validator_vars, parser_vars>>

\* migration_sql = generate_consolidated_migration(statements); f.write(migration_sql)
Generate ==
    /\ pc = "extracted"
    /\ migration_sql' = generate_consolidated_migration(statements)
    /\ output' = JoinLines(migration_sql')
    /\ out_file' = File(output')
    /\ stdout' = Append(stdout, WrittenMsg)
    /\ exit_status' = 0
    /\ pc' = "written"
    /\ UNCHANGED <<dump, content, statements, reextracted, argv,
                   validator_vars, parser_vars>>

\* the written file read back as a schema dump
ReExtract ==
    /\ pc = "written"
    /\ reextracted' = extract_ddl_statements(output)
    /\ pc' = "reextracted"
    /\ UNCHANGED <<dump, content, statements, migration_sql, output,
                   argv, out_file, stdout, exit_status,
                   validator_vars, parser_vars>>

Next == CheckArgs \/ Extract \/ Generate \/ ReExtract

Spec == Init /\ [][Next]_vars

\* the runs of the tool on dumps that hold statements with a quoted ';', a
\* table and an index statement among them
InitQuoted ==
    /\ dump \in SeqsUpTo(QuotedIds \cup {5, 9}, MaxStmts)
    /\ content = Render(dump)
    /\ argv \in ArgvChoices
    /\ out_file \in {NoFile, StaleFile}
    /\ pc = "main"
    /\ statements = EmptyStatements
    /\ migration_sql = <<>>
    /\ output = <<>>
    /\ reextracted = EmptyStatements
    /\ stdout = <<>>
    /\ exit_status = "none"
    /\ ValidatorIdle
    /\ ParserIdle

SpecQuoted == InitQuoted /\ [][Next]_vars

-----------------------------------------------------------------------------
(* generate_consolidated_migration called on a statements dict of any       *)
(* content.                                                                 *)

InitGen ==
    /\ dump \in SeqsUpTo(WellFormedIds, MaxEntries)
    /\ content = <<>>
    /\ pc = "call"
    /\ statements = Categorize(dump)
    /\ migration_sql = <<>>
    /\ output = <<>>
    /\ reextracted = EmptyStatements
    /\ argv = <<>>
    /\ out_file = NoFile
    /\ stdout = <<>>
    /\ exit_status = "none"
    /\ ValidatorIdle
    /\ ParserIdle

GenerateCall ==
    /\ pc = "call"
    /\ migration_sql' = generate_consolidated_migration(statements)
    /\ output' = JoinLines(migration_sql')
    /\ pc' = "returned"
    /\ UNCHANGED <<dump, content, statements, reextracted,
                   argv, out_file, stdout, exit_status,
                   validator_vars, parser_vars>>

NextGen == GenerateCall

SpecGen == InitGen /\ [][NextGen]_vars

\* both: every run of the tool and every direct call of the emitter
SpecAll == (Init \/ InitGen) /\ [][Next \/ NextGen]_vars

-----------------------------------------------------------------------------
(* check_migration_order.py.  The name of a directory entry is a sequence   *)
(* of characters; a datetime is <<year, month, day, hour, minute, second>>. *)

\* number of entries of the migrations directory
MaxDirEntries == 3

\* \d and [a-z]
Digit == {"0", "1", "2", "3", "4", "5", "6", "7", "8", "9"}
Lower ==
    {"a", "b", "c", "d", "e", "f", "g", "h", "i", "j", "k", "l", "m",
     "n", "o", "p", "q", "r", "s", "t", "u", "v", "w", "x", "y", "z"}

DigitVal(c) ==
    CASE c = "0" -> 0 [] c = "1" -> 1 [] c = "2" -> 2 [] c = "3" -> 3 [] c = "4" -> 4
      [] c = "5" -> 5 [] c = "6" -> 6 [] c = "7" -> 7 [] c = "8" -> 8 [] c = "9" -> 9

DigitChar(n) == <<"0", "1", "2", "3", "4", "5", "6", "7", "8", "9">>[n + 1]

AllDigits(s) == \A i \in 1..Len(s) : s[i] \in Digit

\* int() of a string of digits
RECURSIVE Num(_)
Num(s) == IF s = <<>> THEN 0 ELSE 10 * Num(SubSeq(s, 1, Len(s) - 1)) + DigitVal(s[Len(s)])

\* n written with w digits, as %Y, %m, %d, %H, %M and %S of strftime write it
RECURSIVE Pad(_, _)
Pad(n, w) == IF w = 0 THEN <<>> ELSE Pad(n \div 10, w - 1) \o <<DigitChar(n % 10)>>

\* \d{4}-\d{2}-\d{2}-\d{6} at the start of s
TimestampAt(s) ==
    /\ Len(s) >= 17
    /\ AllDigits(SubSeq(s, 1, 4)) /\ s[5] = "-"
    /\ AllDigits(SubSeq(s, 6, 7)) /\ s[8] = "-"
    /\ AllDigits(SubSeq(s, 9, 10)) /\ s[11] = "-"
    /\ AllDigits(SubSeq(s, 12, 17))

NoName == [ok |-> FALSE, name |-> <<>>]

\* (.+)$ from position i: the rest of s, without line end; '$' also stands
\* before a line end that is the last character
RestFrom(s, i) ==
    LET rest == SubSeq(s, i, Len(s))
        name == IF rest # <<>> /\ rest[Len(rest)] = NL
                THEN SubSeq(rest, 1, Len(rest) - 1) ELSE rest
    IN  IF name # <<>> /\ \A k \in 1..Len(name) : name[k] # NL
        THEN [ok |-> TRUE, name |-> name]
        ELSE NoName

DateTime(year, month, day, hour, minute, second) ==
    <<year, month, day, hour, minute, second>>

IsLeap(year) == (year % 4 = 0 /\ year % 100 # 0) \/ year % 400 = 0

DaysInMonth(year, month) ==
    IF month \in {4, 6, 9, 11} THEN 30
    ELSE IF month = 2 THEN (IF IsLeap(year) THEN 29 ELSE 28)
    ELSE 31

\* the fields datetime accepts
ValidDateTime(dt) ==
    /\ dt[1] \in 1..9999
    /\ dt[2] \in 1..12
    /\ dt[3] \in 1..DaysInMonth(dt[1], dt[2])
    /\ dt[4] \in 0..23
    /\ dt[5] \in 0..59
    /\ dt[6] \in 0..59

\* the fields of a string of the shape \d{4}-\d{2}-\d{2}-\d{6}
Fields(s) ==
    DateTime(Num(SubSeq(s, 1, 4)), Num(SubSeq(s, 6, 7)), Num(SubSeq(s, 9, 10)),
             Num(SubSeq(s, 12, 13)), Num(SubSeq(s, 14, 15)), Num(SubSeq(s, 16, 17)))

\* datetime.strptime(timestamp_str, '%Y-%m-%d-%H%M%S'): ok is FALSE for ValueError
strptime(timestamp_str) ==
    [ok |-> ValidDateTime(Fields(timestamp_str)), timestamp |-> Fields(timestamp_str)]

\* timestamp.strftime('%Y-%m-%d %H:%M:%S')
strftime(dt) ==
    Pad(dt[1], 4) \o <<"-">> \o Pad(dt[2], 2) \o <<"-">> \o Pad(dt[3], 2) \o <<" ">>
    \o Pad(dt[4], 2) \o <<":">> \o Pad(dt[5], 2) \o <<":">> \o Pad(dt[6], 2)

\* a < b and a <= b of datetime
Before(a, b) == \E i \in 1..6 : a[i] < b[i] /\ \A j \in 1..(i - 1) : a[j] = b[j]
NotAfter(a, b) == a = b \/ Before(a, b)

None == [ok |-> FALSE, timestamp |-> <<>>, name |-> <<>>]
Parsed(timestamp, name) == [ok |-> TRUE, timestamp |-> timestamp, name |-> name]

\* re.match(pattern1, filename): r'^(\d{4}-\d{2}-\d{2}-\d{6})_(.+)$'
Match1(filename) ==
    IF TimestampAt(filename) /\ Len(filename) >= 18 /\ filename[18] = "_"
    THEN RestFrom(filename, 19) ELSE NoName

\* re.match(pattern2, filename): r'^(\d{4}-\d{2}-\d{2}-\d{6})-(\d{4})_(.+)$'
Match2(filename) ==
    IF /\ TimestampAt(filename) /\ Len(filename) >= 23 /\ filename[18] = "-"
       /\ AllDigits(SubSeq(filename, 19, 22)) /\ filename[23] = "_"
    THEN RestFrom(filename, 24) ELSE NoName

\* re.match(pattern3, filename): r'^00000000000000_(.+)$'
Match3(filename) ==
    IF /\ Len(filename) >= 15
       /\ \A i \in 1..14 : filename[i] = "0"
       /\ filename[15] = "_"
    THEN RestFrom(filename, 16) ELSE NoName

\* the second pattern left out
parse_migration_filename_two_grammars(filename) ==
    IF Match1(filename).ok /\ strptime(SubSeq(filename, 1, 17)).ok
    THEN Parsed(strptime(SubSeq(filename, 1, 17)).timestamp, Match1(filename).name)
    ELSE IF Match3(filename).ok
    THEN Parsed(DateTime(1970, 1, 1, 0, 0, 0), Match3(filename).name)
    ELSE None

\* a parser that keeps the sequence number: it is added to the seconds
parse_migration_filename_keeps_sequence(filename) ==
    IF Match1(filename).ok /\ strptime(SubSeq(filename, 1, 17)).ok
    THEN Parsed(strptime(SubSeq(filename, 1, 17)).timestamp, Match1(filename).name)
    ELSE IF Match2(filename).ok /\ strptime(SubSeq(filename, 1, 17)).ok
    THEN Parsed([strptime(SubSeq(filename, 1, 17)).timestamp EXCEPT
                    ![6] = @ + Num(SubSeq(filename, 19, 22))],
                Match2(filename).name)
    ELSE IF Match3(filename).ok
    THEN Parsed(DateTime(1970, 1, 1, 0, 0, 0), Match3(filename).name)
    ELSE None

parse_migration_filename(filename) ==
    IF Match1(filename).ok /\ strptime(SubSeq(filename, 1, 17)).ok
    THEN Parsed(strptime(SubSeq(filename, 1, 17)).timestamp, Match1(filename).name)
    ELSE IF Match2(filename).ok /\ strptime(SubSeq(filename, 1, 17)).ok
    THEN Parsed(strptime(SubSeq(filename, 1, 17)).timestamp, Match2(filename).name)
    ELSE IF Match3(filename).ok
    THEN Parsed(DateTime(1970, 1, 1, 0, 0, 0), Match3(filename).name)
    ELSE None

\* an entry of the migrations directory
Entry(name, is_dir) == [name |-> name, is_dir |-> is_dir]

\* a migration, first grammar
EntInit ==
    Entry(<<"2", "0", "2", "4", "-", "0", "1", "-", "1", "5", "-", "1", "2", "0", "0",
            "0", "0", "_", "i", "n", "i", "t">>,
          TRUE)

\* second grammar, the date and time of EntInit, sequence 0001
EntAddUsers ==
    Entry(<<"2", "0", "2", "4", "-", "0", "1", "-", "1", "5", "-", "1", "2", "0", "0",
            "0", "0", "-", "0", "0", "0", "1", "_", "a", "d", "d", "_", "u", "s", "e",
            "r", "s">>,
          TRUE)

\* the same date and time, sequence 0002
EntAddOrders ==
    Entry(<<"2", "0", "2", "4", "-", "0", "1", "-", "1", "5", "-", "1", "2", "0", "0",
            "0", "0", "-", "0", "0", "0", "2", "_", "a", "d", "d", "_", "o", "r", "d",
            "e", "r", "s">>,
          TRUE)

\* an earlier migration with a name of two characters
EntShortName ==
    Entry(<<"2", "0", "2", "3", "-", "1", "2", "-", "3", "1", "-", "2", "3", "5", "9",
            "5", "9", "_", "a", "b">>,
          TRUE)

\* 29 February of a leap year, a name with capitals
EntLeapDay ==
    Entry(<<"2", "0", "2", "4", "-", "0", "2", "-", "2", "9", "-", "0", "0", "0", "0",
            "0", "0", "_", "A", "d", "d", "_", "I", "n", "d", "e", "x">>,
          TRUE)

\* 29 February of a common year
EntBadDay ==
    Entry(<<"2", "0", "2", "3", "-", "0", "2", "-", "2", "9", "-", "0", "0", "0", "0",
            "0", "0", "_", "b", "a", "d", "_", "d", "a", "y">>,
          TRUE)

\* hour 24, minute 60
EntBadTime ==
    Entry(<<"2", "0", "2", "4", "-", "0", "1", "-", "1", "5", "-", "2", "4", "6", "0",
            "0", "0", "-", "0", "0", "0", "1", "_", "b", "a", "d", "_", "t", "i", "m",
            "e">>,
          TRUE)

\* the all-zero sentinel
EntSentinel ==
    Entry(<<"0", "0", "0", "0", "0", "0", "0", "0", "0", "0", "0", "0", "0", "0", "_",
            "d", "i", "e", "s", "e", "l", "_", "i", "n", "i", "t", "i", "a", "l", "_",
            "s", "e", "t", "u", "p">>,
          TRUE)

\* the date and time the sentinel stands for, a name of one character
EntEpoch ==
    Entry(<<"1", "9", "7", "0", "-", "0", "1", "-", "0", "1", "-", "0", "0", "0", "0",
            "0", "0", "_", "x">>,
          TRUE)

\* a hidden directory
EntHidden ==
    Entry(<<".", "2", "0", "2", "4", "-", "0", "3", "-", "0", "1", "-", "0", "0", "0",
            "0", "0", "0", "_", "h", "i", "d", "d", "e", "n">>,
          TRUE)

\* a file, not a directory
EntFile ==
    Entry(<<"2", "0", "2", "4", "-", "0", "3", "-", "0", "1", "-", "0", "0", "0", "0",
            "0", "0", "_", "n", "o", "t", "e", "s">>,
          FALSE)

\* a directory named by none of the grammars
EntOldStyle ==
    Entry(<<"2", "0", "2", "4", "-", "0", "1", "-", "1", "5", "_", "i", "n", "i", "t">>,
          TRUE)

DirLib ==
    <<EntInit, EntAddUsers, EntAddOrders, EntShortName,
      EntLeapDay, EntBadDay, EntBadTime, EntSentinel,
      EntEpoch, EntHidden, EntFile, EntOldStyle>>

DirIds == 1..Len(DirLib)

\* the listings of a directory: entries in any order, none twice
Listings(S, n) ==
    {l \in SeqsUpTo(S, n) : \A i, j \in 1..Len(l) : i # j => l[i] # l[j]}

\* item.is_dir() and not item.name.startswith('.')
Considered(e) == e.is_dir /\ ~(e.name # <<>> /\ e.name[1] = ".")

\* (timestamp, name, str(item))
Migration(timestamp, name, path) == <<timestamp, name, path>>

\* the list migrations before it is sorted: the parsed entries in iterdir order
RECURSIVE Collect(_)
Collect(items) ==
    IF items = <<>> THEN <<>>
    ELSE (IF Considered(DirLib[Head(items)])
             /\ parse_migration_filename(DirLib[Head(items)].name).ok
          THEN <<Migration(parse_migration_filename(DirLib[Head(items)].name).timestamp,
                           parse_migration_filename(DirLib[Head(items)].name).name,
                           DirLib[Head(items)].name)>>
          ELSE <<>>)
         \o Collect(Tail(items))

\* the directories that are skipped with a warning
Skipped(items) ==
    SelectSeq(items, LAMBDA i : Considered(DirLib[i])
                                /\ ~parse_migration_filename(DirLib[i].name).ok)

\* m put into a sorted list behind every element that is not after it
Insert(m, ms) ==
    LET k == Cardinality({i \in 1..Len(ms) : NotAfter(ms[i][1], m[1])})
    IN  SubSeq(ms, 1, k) \o <<m>> \o SubSeq(ms, k + 1, Len(ms))

\* sorted(migrations, key=lambda x: x[0]): entries of equal key keep their order
RECURSIVE sorted(_)
sorted(ms) ==
    IF ms = <<>> THEN <<>>
    ELSE Insert(ms[Len(ms)], sorted(SubSeq(ms, 1, Len(ms) - 1)))

\* the list in the order of iterdir, not sorted
get_migration_files_unsorted(exists, items) ==
    IF ~exists THEN <<>> ELSE Collect(items)

get_migration_files(exists, items) ==
    IF ~exists THEN <<>> ELSE sorted(Collect(items))

\* an order check with curr_timestamp < prev_timestamp
check_migration_order_before_only(ms) ==
    IF Len(ms) <= 1 THEN TRUE
    ELSE ~\E i \in 2..Len(ms) : Before(ms[i][1], ms[i - 1][1])

check_migration_order(ms) ==
    IF Len(ms) <= 1 THEN TRUE
    ELSE ~\E i \in 2..Len(ms) : NotAfter(ms[i][1], ms[i - 1][1])

\* timestamp_counts: for every timestamp string the entries that have it
TimestampCounts(ms) ==
    [timestamp_str \in {strftime(ms[i][1]) : i \in 1..Len(ms)} |->
        SelectSeq(ms, LAMBDA m : strftime(m[1]) = timestamp_str)]

check_for_duplicate_timestamps(ms) ==
    ~\E timestamp_str \in DOMAIN TimestampCounts(ms) :
        Len(TimestampCounts(ms)[timestamp_str]) > 1

\* re.match(r'^[a-z][a-z0-9_]*[a-z0-9]$', name)
FollowsConvention(name) ==
    /\ Len(name) >= 2
    /\ name[1] \in Lower
    /\ name[Len(name)] \in Lower \cup Digit
    /\ \A i \in 2..(Len(name) - 1) : name[i] \in Lower \cup Digit \cup {"_"}

\* a check that fails on a name that does not follow the convention as well
check_migration_naming_conventions_strict(ms) ==
    ~\E i \in 1..Len(ms) : Len(ms[i][2]) < 3 \/ ~FollowsConvention(ms[i][2])

check_migration_naming_conventions(ms) ==
    ~\E i \in 1..Len(ms) : Len(ms[i][2]) < 3

\* a printed message about a name
NameMsg(kind, name) == [kind |-> kind, name |-> name]

\* what the naming check prints for the entries, in their order
NamingMsgs(ms) ==
    Concat([i \in 1..Len(ms) |->
               (IF FollowsConvention(ms[i][2]) THEN <<>>
                ELSE <<NameMsg("convention_warning", ms[i][2])>>)
               \o (IF Len(ms[i][2]) < 3 THEN <<NameMsg("name_too_short", ms[i][2])>>
                   ELSE <<>>)])

SkippingMsgs(items) ==
    [i \in 1..Len(Skipped(items)) |-> NameMsg("skipping", DirLib[Skipped(items)[i]].name)]

\* check_migration_order.py started on a migrations directory
InitValidator ==
    /\ dir_exists \in BOOLEAN
    /\ listing \in (IF dir_exists THEN Listings(DirIds, MaxDirEntries) ELSE {<<>>})
    /\ migrations = <<>>
    /\ order_result = NotRun
    /\ duplicate_result = NotRun
    /\ naming_result = NotRun
    /\ all_checks_passed = TRUE
    /\ pc = "validate"
    /\ stdout = <<>>
    /\ exit_status = "none"
    /\ dump = <<>>
    /\ content = <<>>
    /\ statements = EmptyStatements
    /\ migration_sql = <<>>
    /\ output = <<>>
    /\ reextracted = EmptyStatements
    /\ argv = <<>>
    /\ out_file = NoFile
    /\ ParserIdle

\* migrations = get_migration_files(...); return 1 if the list is empty
GetMigrations ==
    /\ pc = "validate"
    /\ migrations' = get_migration_files(dir_exists, listing)
    /\ stdout' = IF dir_exists THEN SkippingMsgs(listing)
                 ELSE <<NameMsg("directory_not_found", <<>>)>>
    /\ IF migrations' = <<>>
       THEN pc' = "validated" /\ exit_status' = 1
       ELSE pc' = "order" /\ exit_status' = exit_status
    /\ UNCHANGED <<dir_exists, listing, order_result, duplicate_result, naming_result,
                   all_checks_passed, ddl_vars, parser_vars>>

\* a main that returns 1 as soon as the order check has failed
CheckOrder_StopOnFailure ==
    /\ pc = "order"
    /\ order_result' = Returned(check_migration_order(migrations))
    /\ all_checks_passed' = (all_checks_passed /\ order_result'.ok)
    /\ IF order_result'.ok
       THEN pc' = "duplicates" /\ exit_status' = exit_status
       ELSE pc' = "validated" /\ exit_status' = 1
    /\ UNCHANGED <<dir_exists, listing, migrations, duplicate_result, naming_result,
                   stdout, ddl_vars, parser_vars>>

\* if not check_migration_order(migrations): all_checks_passed = False
CheckOrder ==
    /\ pc = "order"
    /\ order_result' = Returned(check_migration_order(migrations))
    /\ all_checks_passed' = (all_checks_passed /\ order_result'.ok)
    /\ pc' = "duplicates"
    /\ UNCHANGED <<dir_exists, listing, migrations, duplicate_result, naming_result,
                   stdout, exit_status, ddl_vars, parser_vars>>

\* if not check_for_duplicate_timestamps(migrations): all_checks_passed = False
CheckDuplicates ==
    /\ pc = "duplicates"
    /\ duplicate_result' = Returned(check_for_duplicate_timestamps(migrations))
    /\ all_checks_passed' = (all_checks_passed /\ duplicate_result'.ok)
    /\ pc' = "naming"
    /\ UNCHANGED <<dir_exists, listing, migrations, order_result, naming_result,
                   stdout, exit_status, ddl_vars, parser_vars>>

\* if not check_migration_naming_conventions(migrations): all_checks_passed = False
CheckNaming ==
    /\ pc = "naming"
    /\ naming_result' = Returned(check_migration_naming_conventions(migrations))
    /\ all_checks_passed' = (all_checks_passed /\ naming_result'.ok)
    /\ stdout' = stdout \o NamingMsgs(migrations)
    /\ pc' = "report"
    /\ UNCHANGED <<dir_exists, listing, migrations, order_result, duplicate_result,
                   exit_status, ddl_vars, parser_vars>>

\* return 0 if all_checks_passed else 1; sys.exit(main())
Report ==
    /\ pc = "report"
    /\ exit_status' = IF all_checks_passed THEN 0 ELSE 1
    /\ pc' = "validated"
    /\ UNCHANGED <<dir_exists, listing, migrations, order_result, duplicate_result,
                   naming_result, all_checks_passed, stdout, ddl_vars, parser_vars>>

NextValidator == GetMigrations \/ CheckOrder \/ CheckDuplicates \/ CheckNaming \/ Report

SpecValidator == InitValidator /\ [][NextValidator]_vars

-----------------------------------------------------------------------------
(* parse_xbrl_with_local_dts of enhanced_arelle_parser.py and of            *)
(* simple_arelle_parser.py.  A file is named by its directory and its base  *)
(* name; a base name is its stem and its extension.  The line numbers in    *)
(* the comments are those of enhanced_arelle_parser.py.                     *)

\* number of facts of a loaded instance
MaxFacts == 2

Location(dir, name) == [dir |-> dir, name |-> name]

\* a path without a directory: it is looked up in the working directory
Relative == "."

WorkDir == "/work"
HomeDir == "/home"
OutDir == "/out"
CacheDir == "/cache"
LockedCacheDir == "/locked_cache"
MissingDir == "/nodir"
\* tempfile.gettempdir() and the directory tempfile.mkdtemp creates in it
TempRoot == "/tmp"
TempDir == "/tmp/xbrl_dts_"

Filing == <<"filing", ".xml">>
OutJson == <<"out", ".json">>

\* the file a path names when the working directory is dir
Resolve(path, dir) == IF path.dir = Relative THEN Location(dir, path.name) ELSE path

\* the files after text is written to the file at
WriteFile(f, at, text) == [l \in DOMAIN f \cup {at} |-> IF l = at THEN text ELSE f[l]]

\* the files after shutil.rmtree(dir, ignore_errors=True)
rmtree(f, dir) == [l \in {x \in DOMAIN f : x.dir # dir} |-> f[l]]

\* shutil.copy2 can read the file
Readable(f, at) == at \in DOMAIN f /\ f[at] # "unreadable"

\* the files after shutil.copy2 of the files sources into dir
CopyInto(f, sources, dir) ==
    [l \in DOMAIN f \cup {Location(dir, x.name) : x \in sources} |->
        IF l.dir = dir /\ \E x \in sources : x.name = l.name
        THEN f[CHOOSE x \in sources : x.name = l.name]
        ELSE f[l]]

\* for filename in os.listdir(taxonomy_cache_dir): if filename.endswith(('.xsd', '.xml'))
TaxonomyFiles(f, d, taxonomy_cache_dir) ==
    IF taxonomy_cache_dir \in d
    THEN {l \in DOMAIN f : l.dir = taxonomy_cache_dir /\ l.name[2] \in {".xsd", ".xml"}}
    ELSE {}

\* what setup_local_taxonomy_cache leaves and returns
SetupResult(raised, f, d, dir) == [raised |-> raised, fs |-> f, dirs |-> d, temp_dir |-> dir]

\* tempfile.mkdtemp raises outside the try; a copy that raises has the
\* directory removed and the exception raised again; otherwise the directory
\* holds the instance and the taxonomy files
setup_local_taxonomy_cache(f, d, instance_file_path, taxonomy_cache_dir) ==
    IF TempRoot \notin d
    THEN SetupResult("FileNotFoundError", f, d, "None")
    ELSE IF ~Readable(f, instance_file_path)
    THEN SetupResult("FileNotFoundError", rmtree(f, TempDir), d \ {TempDir}, "None")
    ELSE IF \E l \in TaxonomyFiles(f, d, taxonomy_cache_dir) : ~Readable(f, l)
    THEN SetupResult("PermissionError",
                     rmtree(CopyInto(f, {instance_file_path}, TempDir), TempDir),
                     d \ {TempDir}, "None")
    ELSE SetupResult("none",
                     CopyInto(f, {instance_file_path}
                                    \cup TaxonomyFiles(f, d, taxonomy_cache_dir), TempDir),
                     d \cup {TempDir}, TempDir)

\* {"error": "Failed to load XBRL file", "success": False}
LoadFailed == [is_dict |-> TRUE, success |-> FALSE, error_type |-> "none", facts_count |-> 0]

\* error_details of the exception e
ErrorDetails(e) == [is_dict |-> TRUE, success |-> FALSE, error_type |-> e, facts_count |-> 0]

\* result, with "success": True and the number of facts in its metadata
SuccessResult(facts) ==
    [is_dict |-> TRUE, success |-> TRUE, error_type |-> "none", facts_count |-> Len(facts)]

\* the facts of an instance: a fact that can be read and written, one whose
\* attributes raise when they are read, one with a value json cannot write
FactKinds == {"plain", "raising", "opaque"}

\* the files and directories before the call
InitialFiles ==
    [l \in {Location(WorkDir, Filing), Location(CacheDir, <<"us-gaap-2024", ".xsd">>),
            Location(CacheDir, <<"readme", ".txt">>),
            Location(LockedCacheDir, <<"dei-2024", ".xsd">>)} |->
        IF l.dir = WorkDir THEN "instance"
        ELSE IF l.dir = LockedCacheDir THEN "unreadable"
        ELSE IF l.name[2] = ".xsd" THEN "schema" ELSE "text"]

InitialDirs == {WorkDir, HomeDir, OutDir, CacheDir, LockedCacheDir}

\* a call of parse_xbrl_with_local_dts(xbrl_file_path, taxonomy_cache_dir,
\* output_file_path) of one of the two scripts
InitParser ==
    /\ script \in {"enhanced", "simple"}
    /\ call \in [xbrl_file_path   : {Location(Relative, Filing), Location(WorkDir, Filing),
                                     Location(Relative, <<"missing", ".xml">>)},
                 taxonomy_cache_dir : {CacheDir, LockedCacheDir, MissingDir},
                 output_file_path : {Location(OutDir, OutJson), Location(Relative, OutJson),
                                     Location(MissingDir, OutJson)},
                 cwd              : {WorkDir, HomeDir}]
    /\ fs = InitialFiles
    /\ dirs \in {InitialDirs, InitialDirs \cup {TempRoot}}
    /\ cwd = call.cwd
    /\ temp_dir = "None"
    /\ original_cwd = "None"
    /\ model_xbrl = <<>>
    /\ exc = "none"
    /\ result = NoResult
    /\ pc = "parse"
    /\ stdout = <<>>
    /\ exit_status = "none"
    /\ dump = <<>>
    /\ content = <<>>
    /\ statements = EmptyStatements
    /\ migration_sql = <<>>
    /\ output = <<>>
    /\ reextracted = EmptyStatements
    /\ argv = <<>>
    /\ out_file = NoFile
    /\ ValidatorIdle

parser_frame == <<dump, content, statements, migration_sql, output, reextracted, argv,
                  out_file, stdout, exit_status, validator_vars, script, call>>

\* lines 69-72: temp_dir, ... = setup_local_taxonomy_cache(...); an exception
\* goes to the handler of line 243 with temp_dir still None
SetupCache ==
    /\ pc = "parse"
    /\ LET r == setup_local_taxonomy_cache(fs, dirs, Resolve(call.xbrl_file_path, cwd),
                                           call.taxonomy_cache_dir)
       IN  /\ fs' = r.fs
           /\ dirs' = r.dirs
           /\ temp_dir' = r.temp_dir
           /\ exc' = r.raised
           /\ pc' = IF r.raised = "none" THEN "configure" ELSE "except"
    /\ UNCHANGED <<cwd, original_cwd, model_xbrl, result, parser_frame>>

\* lines 74-102: the controller is created and configured (the imports of
\* arelle, ssl and urllib3 and Cntlr.Cntlr() can raise), then
\* original_cwd = os.getcwd(); os.chdir(temp_dir)
Configure ==
    /\ pc = "configure"
    /\ \E library \in {"available", "unavailable"} :
          IF library = "unavailable"
          THEN /\ exc' = "ImportError"
               /\ pc' = "except"
               /\ UNCHANGED <<cwd, original_cwd>>
          ELSE /\ original_cwd' = cwd
               /\ cwd' = temp_dir
               /\ pc' = "load"
               /\ exc' = exc
    /\ UNCHANGED <<fs, dirs, temp_dir, model_xbrl, result, parser_frame>>

\* lines 106-109: model_xbrl = ctrl.modelManager.load(temp_instance_path); it
\* returns a model, returns None (the function then returns the load failure)
\* or raises
Load ==
    /\ pc = "load"
    /\ \/ /\ \E facts \in SeqsUpTo(FactKinds, MaxFacts) : model_xbrl' = <<facts>>
          /\ pc' = "extract"
          /\ UNCHANGED <<exc, result>>
       \/ /\ model_xbrl' = <<>>
          /\ result' = LoadFailed
          /\ pc' = "restore"
          /\ exc' = exc
       \/ /\ model_xbrl' = <<>>
          /\ exc' = "OSError"
          /\ pc' = "restore"
          /\ result' = result
    /\ UNCHANGED <<fs, dirs, cwd, temp_dir, original_cwd, parser_frame>>

\* the facts that get into the result: simple_arelle_parser.py skips a fact
\* whose attributes raise (its lines 79-94)
ExtractedFacts(facts) ==
    IF script = "simple" THEN SelectSeq(facts, LAMBDA k : k # "raising") ELSE facts

\* lines 111-231: the facts, contexts and units are read and result is built;
\* in enhanced_arelle_parser.py a fact whose attributes raise ends the
\* extraction
ExtractFacts ==
    /\ pc = "extract"
    /\ IF script = "enhanced" /\ \E i \in 1..Len(model_xbrl[1]) : model_xbrl[1][i] = "raising"
       THEN exc' = "AttributeError" /\ pc' = "restore" /\ result' = result
       ELSE /\ result' = SuccessResult(ExtractedFacts(model_xbrl[1]))
            /\ pc' = "write"
            /\ exc' = exc
    /\ UNCHANGED <<fs, dirs, cwd, temp_dir, original_cwd, model_xbrl, parser_frame>>

\* lines 233-237: open(output_file_path, 'w') in the working directory of the
\* moment, json.dump(result, f), return result; open raises when the
\* directory does not exist, json.dump raises on a value it cannot write and
\* leaves the file cut short
WriteOutput ==
    /\ pc = "write"
    /\ LET at == Resolve(call.output_file_path, cwd)
       IN  IF at.dir \notin dirs
           THEN exc' = "FileNotFoundError" /\ fs' = fs
           ELSE IF \E i \in 1..Len(model_xbrl[1]) : model_xbrl[1][i] = "opaque"
           THEN exc' = "TypeError" /\ fs' = WriteFile(fs, at, "cut short")
           ELSE exc' = exc /\ fs' = WriteFile(fs, at, "result")
    /\ pc' = "restore"
    /\ UNCHANGED <<dirs, cwd, temp_dir, original_cwd, model_xbrl, result, parser_frame>>

\* lines 239-241: finally: os.chdir(original_cwd)
RestoreCwd ==
    /\ pc = "restore"
    /\ cwd' = original_cwd
    /\ pc' = IF exc = "none" THEN "finally" ELSE "except"
    /\ UNCHANGED <<fs, dirs, temp_dir, original_cwd, model_xbrl, exc, result, parser_frame>>

\* lines 243-251: except Exception as e: return error_details
HandleException ==
    /\ pc = "except"
    /\ result' = ErrorDetails(exc)
    /\ exc' = "none"
    /\ pc' = "finally"
    /\ UNCHANGED <<fs, dirs, cwd, temp_dir, original_cwd, model_xbrl, parser_frame>>

\* lines 253-256: finally: if temp_dir and os.path.exists(temp_dir):
\* shutil.rmtree(temp_dir, ignore_errors=True); the function returns
CleanUp ==
    /\ pc = "finally"
    /\ IF temp_dir # "None" /\ temp_dir \in dirs
       THEN fs' = rmtree(fs, temp_dir) /\ dirs' = dirs \ {temp_dir}
       ELSE fs' = fs /\ dirs' = dirs
    /\ pc' = "returned"
    /\ UNCHANGED <<cwd, temp_dir, original_cwd, model_xbrl, exc, result, parser_frame>>

NextParser ==
    \/ SetupCache
    \/ Configure
    \/ Load
    \/ ExtractFacts
    \/ WriteOutput
    \/ RestoreCwd
    \/ HandleException
    \/ CleanUp

SpecParser == InitParser /\ [][NextParser]_vars

-----------------------------------------------------------------------------
(* Properties *)

Range(f) == {f[i] : i \in DOMAIN f}

\* the lines of the emitted text
OutputLines == Split(output, NL)

Emitted == pc \in {"written", "reextracted", "returned"}

SectionRank(sec) ==
    CASE sec = "header"      -> 0
      [] sec = "extensions"  -> 1
      [] sec = "types"       -> 2
      [] sec = "tables"      -> 3
      [] sec = "constraints" -> 4
      [] sec = "indexes"     -> 5
      [] sec = "triggers"    -> 6

\* the category of the statement a line of text opens; 0 for any other line
StatementRank(line) ==
    IF LitAt(line, 1, ExtensionLit1) THEN 1
    ELSE IF LitAt(line, 1, TypeLit1) THEN 2
    ELSE IF LitAt(line, 1, TableLit1) THEN 3
    ELSE IF LitAt(line, 1, ConstraintLit1) THEN 4
    ELSE IF LitAt(line, 1, IndexLit1) THEN 5
    ELSE IF LitAt(line, 1, TriggerLit1) THEN 6
    ELSE 0

\* C1: in the text returned by generate_consolidated_migration every Extension
\* line stands before every EnumType line, every EnumType line before every
\* Table line, then Constraint, Index and Trigger lines, in this order, both
\* for the lines each section appends and for the statement lines of the
\* joined text, whatever the order of the statements in the dump.
C1_SectionOrder ==
    pc = "returned" =>
        LET secs  == [i \in 1..Len(migration_sql) |-> SectionRank(migration_sql[i].sec)]
            lines == OutputLines
            stmts == [i \in 1..Len(lines) |-> StatementRank(lines[i])]
        IN  /\ \A i, j \in 1..Len(secs) : secs[i] < secs[j] => i < j
            /\ \A i, j \in 1..Len(stmts) :
                  (stmts[i] # 0 /\ stmts[i] < stmts[j]) => i < j

\* a call whose dict was filled trigger first, index second, extension last
C1_Witness ==
    /\ pc = "returned"
    /\ Len(dump) = 3
    /\ Lib[dump[1]].kind = "triggers"
    /\ Lib[dump[2]].kind = "indexes"
    /\ Lib[dump[3]].kind = "extensions"
    /\ LET lines == OutputLines
       IN  \E i, j, k \in 1..Len(lines) :
              /\ i < j /\ j < k
              /\ StatementRank(lines[i]) = 1
              /\ StatementRank(lines[j]) = 5
              /\ StatementRank(lines[k]) = 6

\* C2: extract_ddl_statements returns for every text that can be read, whatever
\* statements, well-formed or cut off, the text holds: no run of the tool ends
\* in an exception raised by the extraction.
C2_ExtractionNeverRaises == pc # "crashed" /\ ~statements.raised


Extracted == pc \in {"extracted", "written", "reextracted"}

AllWellFormed(d) == \A i \in 1..Len(d) : Lib[d[i]].wf

Count(d, kind) == Len(EntriesOf(d, kind))

NotBookkeeping(t) == t[1] # BookkeepingTable

\* what the dump states, category by category: the bookkeeping table left out
Stated(d) ==
    [Categorize(d) EXCEPT !.tables = SelectSeq(EntriesOf(d, "tables"), NotBookkeeping)]

\* C3: for a dump made of statements of the recognized shapes, the extraction
\* returns, and the sizes of the seven collections are the numbers of
\* statements of each category in the dump (the bookkeeping table not counted).
C3_ExactCounts ==
    (pc \in {"extracted", "crashed", "written", "reextracted"} /\ AllWellFormed(dump)) =>
        /\ ~statements.raised
        /\ Len(statements.extensions) = Count(dump, "extensions")
        /\ Len(statements.types) = Count(dump, "types")
        /\ Len(statements.tables) = Len(Stated(dump).tables)
        /\ Len(statements.indexes) = Count(dump, "indexes")
        /\ Len(statements.constraints) = Count(dump, "constraints")
        /\ Len(statements.triggers) = Count(dump, "triggers")
        /\ Len(statements.functions) = Count(dump, "functions")

\* C4: the name of the bookkeeping table is the name of no entry of the tables
\* collection and stands nowhere in the emitted text.
C4_BookkeepingTableAbsent ==
    /\ \A i \in 1..Len(statements.tables) : statements.tables[i][1] # BookkeepingTable
    /\ Emitted => BookkeepingTable[1] \notin Range(output)

\* the line the emitter is to write for a CREATE INDEX statement of the dump
CarriesIndex(line, x) ==
    /\ LitAt(line, 1, IndexLit1 \o x[1] \o IndexLit2 \o x[2] \o IndexLit3 \o x[3]
                      \o IndexLit4 \o x[4] \o <<")">>)
    /\ IF x[5] # <<>>
       THEN line = IndexLit1 \o x[1] \o IndexLit2 \o x[2] \o IndexLit3 \o x[3]
                   \o IndexLit4 \o x[4] \o <<")", " ", "WHERE", " ">> \o x[5] \o <<";">>
       ELSE "WHERE" \notin Range(line)

\* C5: extraction then emission of a dump with a CREATE INDEX statement ends
\* with the text written, and the emitted index line carries the WHERE clause
\* of the statement verbatim after the column list, or no WHERE token when the
\* statement has none.
C5_IndexWherePreserved ==
    \A i \in 1..Len(dump) :
        (Lib[dump[i]].kind = "indexes" /\ Lib[dump[i]].wf /\ pc \in {"crashed", "extracted", "written", "reextracted"}) =>
            /\ pc # "crashed"
            /\ Emitted => \E k \in 1..Len(migration_sql) :
                              CarriesIndex(migration_sql[k].text, Lib[dump[i]].entry)

IsCutTable(i) == Lib[i].kind = "tables" /\ ~Lib[i].wf

Front(d) == SubSeq(d, 1, Len(d) - 1)

EmittedCategories ==
    {"extensions", "types", "tables", "constraints", "indexes", "triggers"}

\* C7: every run writes its text, and the extraction of that text gives, for
\* each of the six emitted categories, a collection of the size the extraction
\* of the dump gave.
C7_ReextractionSameCounts ==
    /\ pc # "crashed"
    /\ pc = "reextracted" =>
          /\ ~reextracted.raised
          /\ \A c \in EmittedCategories : Len(reextracted[c]) = Len(statements[c])

FunctionLists == {<<>>, <<EntFunction>>, <<EntFunction, EntFunction>>}

\* the literal lit stands somewhere in text
Occurs(lit, text) == \E i \in 1..Len(text) : LitAt(text, i, lit)

Labels(raw) ==
    LET q == {i \in 1..Len(raw) : raw[i] = "'"}
    IN  [k \in 1..(Cardinality(q) \div 2) |-> SubSeq(raw, Kth(q, 2 * k - 1), Kth(q, 2 * k))]

\* the lines written between 'CREATE TYPE public.<name> AS ENUM (' and ');' for
\* the k-th type of the section
ValueLines(k) ==
    LET sec    == SelectSeq(migration_sql, LAMBDA l : l.sec = "types")
        opens  == {i \in 1..Len(sec) : LitAt(sec[i].text, 1, TypeLit1)}
        closes == {i \in 1..Len(sec) : sec[i].text = <<")", ";">>}
    IN  SubSeq(sec, Kth(opens, k) + 1, Kth(closes, k) - 1)

\* C9: for every enum type the emitter writes one indented line per value, in
\* source order; every line but the last ends with a comma and the last has
\* none.
C9_OneLinePerEnumValue ==
    pc = "returned" =>
        \A k \in 1..Len(statements.types) :
            LET labels == Labels(statements.types[k][2])
                lines  == ValueLines(k)
            IN  /\ Len(lines) = Len(labels)
                /\ \A i \in 1..Len(lines) :
                      lines[i].text = Indent \o labels[i]
                                      \o (IF i < Len(lines) THEN <<",">> ELSE <<>>)


\* the name by which an entry of a category is known
EntryName(kind, e) ==
    IF kind = "extensions" THEN e
    ELSE IF kind = "constraints" THEN e[2]
    ELSE e[1]

\* the names of the statements of a category, well-formed or cut off, in the
\* order of the dump
RECURSIVE NamesIn(_, _)
NamesIn(d, kind) ==
    IF d = <<>> THEN <<>>
    ELSE (IF Lib[Head(d)].kind = kind
          THEN <<EntryName(kind, Lib[Head(d)].entry)>> ELSE <<>>)
         \o NamesIn(Tail(d), kind)

\* a is b with some elements left out
RECURSIVE IsSubseq(_, _)
IsSubseq(a, b) ==
    IF a = <<>> THEN TRUE
    ELSE IF b = <<>> THEN FALSE
    ELSE IF Head(a) = Head(b) THEN IsSubseq(Tail(a), Tail(b))
    ELSE IsSubseq(a, Tail(b))

Categories == EmittedCategories \cup {"functions"}

\* the first line the emitter writes for an entry of a category
OpeningLine(kind, e) ==
    CASE kind = "extensions"  -> ExtensionLit1 \o e \o ExtensionLit2
      [] kind = "types"       -> TypeLit1 \o e[1] \o TypeLit2
      [] kind = "tables"      -> TableLit1 \o e[1] \o TableLit2
      [] kind = "constraints" -> ConstraintLit1 \o e[1]
      [] kind = "indexes"     -> IndexLit1 \o e[1] \o IndexLit2 \o e[2] \o IndexLit3
                                 \o e[3] \o IndexLit4 \o e[4] \o <<")">>
                                 \o (IF e[5] = <<>> THEN <<>>
                                     ELSE <<" ", "WHERE", " ">> \o e[5])
                                 \o <<";">>
      [] kind = "triggers"    -> TriggerLit1 \o e[1] \o <<" ">> \o e[2] \o <<";">>

\* the statement lines of the section of a category, as they stand in the list
StatementLines(kind) ==
    LET sec == SelectSeq(migration_sql,
                         LAMBDA l : l.sec = kind /\ StatementRank(l.text) # 0)
    IN  [i \in 1..Len(sec) |-> sec[i].text]

\* the second line of every constraint, as they stand in the list
ConstraintNameLines ==
    LET sec == SelectSeq(migration_sql,
                         LAMBDA l : l.sec = "constraints"
                                    /\ LitAt(l.text, 1, Indent \o ConstraintLit2))
    IN  [i \in 1..Len(sec) |-> sec[i].text]

\* C10: the entries of every extracted collection stand in the order in which
\* their statements stand in the dump, a statement found twice giving two
\* entries; and the emitter writes the statements of a category in the order
\* of the collection, one for each entry.
C10_OrderWithinCategory ==
    /\ Extracted =>
          \A c \in Categories :
              /\ IsSubseq([i \in 1..Len(statements[c]) |-> EntryName(c, statements[c][i])],
                          NamesIn(dump, c))
              /\ AllWellFormed(dump) => statements[c] = Stated(dump)[c]
    /\ Emitted =>
          /\ \A c \in EmittedCategories :
                StatementLines(c)
                    = [i \in 1..Len(statements[c]) |-> OpeningLine(c, statements[c][i])]
          /\ ConstraintNameLines
                = [i \in 1..Len(statements.constraints) |->
                       Indent \o ConstraintLit2 \o statements.constraints[i][2] \o <<" ">>
                       \o statements.constraints[i][3] \o <<";">>]

\* two enum types extracted and written in the order of the dump, which is not
\* the order of their names
C10_Witness ==
    /\ pc = "written"
    /\ Len(statements.types) = 2
    /\ statements.types[1][1] = <<"status">>
    /\ statements.types[2][1] = <<"label">>
    /\ StatementLines("types")
          = <<TypeLit1 \o <<"status">> \o TypeLit2, TypeLit1 \o <<"label">> \o TypeLit2>>

-----------------------------------------------------------------------------
(* The driver (main) *)

ValidCommandLine == Len(argv) = 1 /\ PathExists(argv[1])

Terminated == pc \in {"exited", "crashed", "written", "reextracted"}

CountsPrinted ==
    \E i \in 1..Len(stdout) : stdout[i].kind = "counts" /\ Len(stdout[i].counts) = 7

\* C12: a run of main with one argument that names an existing schema dump
\* ends with the seven counts printed, the consolidated text in the file at
\* the output path and exit status 0.
C12_ValidRunSucceeds ==
    (ValidCommandLine /\ Terminated) =>
        /\ exit_status = 0
        /\ CountsPrinted
        /\ out_file = File(output)

\* C13: in a run of main with no argument, with more than one, or with the path
\* of a file that does not exist, the only step is the one that prints one
\* message (usage, or file not found) and exits with status 1: nothing is
\* extracted, nothing is emitted, and the file at the output path stays as it
\* was, absent or with its former content.
C13_BadCommandLineExits ==
    [][~ValidCommandLine =>
          /\ pc = "main" /\ pc' = "exited"
          /\ exit_status' = 1
          /\ stdout' = (IF Len(argv) # 1 THEN <<UsageMsg>> ELSE <<NotFoundMsg>>)
          /\ statements' = EmptyStatements
          /\ migration_sql' = <<>> /\ output' = <<>>
          /\ out_file' = out_file]_vars

\* a run on a missing file that has ended, the former output still in place
C13_Witness ==
    /\ pc = "exited"
    /\ argv = <<MissingPath>>
    /\ exit_status = 1
    /\ out_file = StaleFile

\* C14: the step that builds the text and writes the output file is taken only
\* from the state where extract_ddl_statements has returned the collections
\* of the dump; the step where the extraction raises, and every state after
\* it, leaves the file at the output path as it was and no text built.
C14_WriteOnlyAfterExtraction ==
    [][/\ (out_file' # out_file \/ migration_sql' # migration_sql \/ pc' = "written") =>
            /\ pc = "extracted"
            /\ ~statements.raised
            /\ statements = extract_ddl_statements(content)
       /\ (pc = "crashed" \/ pc' = "crashed") =>
            /\ out_file' = out_file
            /\ migration_sql' = <<>> /\ output' = <<>>]_vars

\* a run whose extraction raised, the file of a former run untouched
C14_Witness ==
    /\ pc = "crashed"
    /\ statements.raised
    /\ exit_status = 1
    /\ out_file = StaleFile
    /\ migration_sql = <<>>

-----------------------------------------------------------------------------
(* Layout of the emitted text *)

\* the comment line that opens the section of a category
SectionComment(c) ==
    CASE c = "extensions"  -> <<"--", " ", "Extensions">>
      [] c = "types"       -> <<"--", " ", "Custom", " ", "Types", " ", "(", "ENUMs", ")">>
      [] c = "tables"      -> <<"--", " ", "Tables">>
      [] c = "constraints" -> <<"--", " ", "Constraints">>
      [] c = "indexes"     -> <<"--", " ", "Indexes">>
      [] c = "triggers"    -> <<"--", " ", "Triggers">>

\* C11: in the text returned by generate_consolidated_migration the comment
\* line of each of the six emitted categories stands exactly when the
\* collection of the category is not empty, once, with a statement of the
\* category on the next line and every statement of the category below it
\* and above the next comment line; the header block is three comment lines
\* and one empty line, the first section starts on the line after it, and
\* before every section comment stands exactly one empty line.
C11_SectionsAndBlankLines ==
    pc = "returned" =>
        LET lines    == OutputLines
            at       == [c \in EmittedCategories |->
                            {i \in 1..Len(lines) : lines[i] = SectionComment(c)}]
            comments == UNION {at[c] : c \in EmittedCategories}
            rank     == [j \in 1..Len(lines) |-> StatementRank(lines[j])]
        IN  /\ \A c \in EmittedCategories :
                  IF statements[c] = <<>> THEN at[c] = {}
                  ELSE /\ Cardinality(at[c]) = 1
                       /\ \A i \in at[c] : i < Len(lines) /\ rank[i + 1] = SectionRank(c)
            /\ Len(lines) >= 4
            /\ \A i \in 1..3 : lines[i] # <<>> /\ lines[i][1] = "--"
            /\ lines[4] = <<>>
            /\ comments # {} => 5 \in comments
            /\ \A i \in comments : lines[i - 1] = <<>> /\ lines[i - 2] # <<>>
            /\ \A j \in 1..Len(lines) :
                  rank[j] # 0 =>
                      \E c \in EmittedCategories :
                          /\ SectionRank(c) = rank[j]
                          /\ \E i \in at[c] :
                                 i < j /\ \A k \in comments : ~(i < k /\ k < j)

\* a dict with extensions, tables and triggers and no type, constraint or index
C11_Witness ==
    /\ pc = "returned"
    /\ statements.extensions # <<>>
    /\ statements.tables # <<>>
    /\ statements.triggers # <<>>
    /\ statements.types = <<>>
    /\ Len(OutputLines) > 12

\* C15: for every table the extraction returned, the written text has the line
\* 'CREATE TABLE public.<name> (', then one line for each line of the captured
\* body, which is the fixed indent and the body line without the whitespace
\* at its ends, then the line ');'.
C15_TableBlock ==
    pc = "written" =>
        LET lines == OutputLines
            opens == {i \in 1..Len(lines) : LitAt(lines[i], 1, TableLit1)}
        IN  /\ Cardinality(opens) = Len(statements.tables)
            /\ \A k \in 1..Len(statements.tables) :
                  LET t    == statements.tables[k]
                      body == Split(t[2], NL)
                      p    == Kth(opens, k)
                  IN  /\ lines[p] = TableLit1 \o t[1] \o TableLit2
                      /\ p + Len(body) + 1 <= Len(lines)
                      /\ \A j \in 1..Len(body) : lines[p + j] = Indent \o Strip(body[j])
                      /\ lines[p + Len(body) + 1] = <<")", ";">>

\* the table orders written: two body lines, the second indented in the dump
C15_Witness ==
    /\ pc = "written"
    /\ \E k \in 1..Len(statements.tables) :
          /\ statements.tables[k] = EntOrders
          /\ Len(Split(statements.tables[k][2], NL)) = 2

-----------------------------------------------------------------------------
(* Statement boundaries *)

NoSemicolon(text) == ";" \notin Range(text)

\* lit stands somewhere in text
StandsIn(lit, text) == \E p \in 1..Len(text) : LitAt(text, p, lit)

\* C20: no captured table body, constraint definition, trigger definition or
\* function return type holds a ';', in the extraction of the dump and in the
\* extraction of the written text; in the dump every captured text is followed
\* by the ';' that ended it (for a table by ');'), so that it ends at the first
\* ';' after its opening; and a statement with a ';' inside a quoted literal
\* or a dollar-quoted body is in no collection with its full text.
C20_EndsAtFirstSemicolon ==
    /\ \A st \in {statements, reextracted} :
          /\ \A i \in 1..Len(st.tables) : NoSemicolon(st.tables[i][2])
          /\ \A i \in 1..Len(st.constraints) : NoSemicolon(st.constraints[i][3])
          /\ \A i \in 1..Len(st.triggers) : NoSemicolon(st.triggers[i][2])
          /\ \A i \in 1..Len(st.functions) : NoSemicolon(st.functions[i][2])
    /\ Extracted =>
          /\ \A i \in 1..Len(statements.tables) :
                LET e    == statements.tables[i]
                    open == TableLit1 \o e[1] \o TableLit2
                IN  \E p, q \in 1..Len(content) :
                       /\ LitAt(content, p, open)
                       /\ p + Len(open) <= q
                       /\ LitAt(content, q, <<")", ";">>)
                       /\ Strip(Slice(content, p + Len(open), q)) = e[2]
          /\ \A i \in 1..Len(statements.constraints) :
                LET e == statements.constraints[i]
                IN  StandsIn(ConstraintLit2 \o e[2] \o <<" ">> \o e[3] \o <<";">>, content)
          /\ \A i \in 1..Len(statements.triggers) :
                LET e == statements.triggers[i]
                IN  StandsIn(TriggerLit1 \o e[1] \o <<" ">> \o e[2] \o <<";">>, content)
          /\ \A i \in 1..Len(statements.functions) :
                LET e == statements.functions[i]
                IN  StandsIn(FunctionLit2 \o e[2] \o <<";">>, content)
          /\ \A i \in 1..Len(dump) :
                dump[i] \in QuotedIds =>
                    \A k \in 1..Len(statements[Lib[dump[i]].kind]) :
                        statements[Lib[dump[i]].kind][k] # Lib[dump[i]].entry

\* a trigger whose WHEN condition compares with ';': the captured definition
\* stops inside the quoted literal
C20_Witness ==
    /\ pc = "extracted"
    /\ \E k \in 1..Len(statements.triggers) :
          LET e == statements.triggers[k]
          IN  /\ e[1] = EntNotesAudit[1]
              /\ e[2] = SubSeq(EntNotesAudit[2], 1, Len(e[2]))
              /\ Len(e[2]) < Len(EntNotesAudit[2])
              /\ e[2][Len(e[2])] = "'"

-----------------------------------------------------------------------------
(* The migration-order validator *)

\* two entries of the list have the same timestamp
SameTimestamp(ms) == \E i, j \in 1..Len(ms) : i # j /\ ms[i][1] = ms[j][1]

ChecksDone == pc \in {"report", "validated"} /\ migrations # <<>>

\* C16: when two of the accepted entries have the same timestamp, the order
\* check and the duplicate check both return False and main exits with 1; when
\* the timestamps of the accepted entries are pairwise distinct, both checks
\* return True.
C16_DuplicateTimestampsFail ==
    ChecksDone =>
        IF SameTimestamp(migrations)
        THEN /\ order_result = Returned(FALSE)
             /\ duplicate_result = Returned(FALSE)
             /\ ~all_checks_passed
             /\ pc = "validated" => exit_status = 1
        ELSE /\ order_result = Returned(TRUE)
             /\ duplicate_result = Returned(TRUE)

\* two entries of the same date and time, with good names, beside a third one
C16_Witness ==
    /\ pc = "validated"
    /\ Len(migrations) = 3
    /\ SameTimestamp(migrations)
    /\ naming_result = Returned(TRUE)
    /\ exit_status = 1

\* C17: check_migration_naming_conventions returns False exactly when the name
\* of some entry has fewer than three characters; for every name that does not
\* follow the convention a warning is printed, and only that.
C17_NamingFailsOnShortNamesOnly ==
    naming_result.ran =>
        LET names    == [i \in 1..Len(migrations) |-> migrations[i][2]]
            warnings == SelectSeq(stdout, LAMBDA m : m.kind = "convention_warning")
            errors   == SelectSeq(stdout, LAMBDA m : m.kind = "name_too_short")
        IN  /\ naming_result.ok = (\A i \in 1..Len(names) : Len(names[i]) >= 3)
            /\ [i \in 1..Len(warnings) |-> warnings[i].name]
                   = SelectSeq(names, LAMBDA n : ~FollowsConvention(n))
            /\ [i \in 1..Len(errors) |-> errors[i].name]
                   = SelectSeq(names, LAMBDA n : Len(n) < 3)

\* a name with capitals and no short name: a warning, the check passes and so
\* does the run
C17_Witness ==
    /\ pc = "validated"
    /\ \E i \in 1..Len(migrations) :
          Len(migrations[i][2]) >= 3 /\ ~FollowsConvention(migrations[i][2])
    /\ naming_result = Returned(TRUE)
    /\ exit_status = 0

\* the name starts with a date and time that exist, written YYYY-MM-DD-HHMMSS
Stamped(filename) == TimestampAt(filename) /\ ValidDateTime(Fields(filename))

NoLineEnd(filename) == \A k \in 1..Len(filename) : filename[k] # NL

Zeros14 == [i \in 1..14 |-> "0"]

\* the three grammars of an entry name: YYYY-MM-DD-HHMMSS_<name>,
\* YYYY-MM-DD-HHMMSS-NNNN_<name> and 00000000000000_<name>
InGrammar(filename) ==
    \/ /\ Stamped(filename)
       /\ Len(filename) > 18
       /\ filename[18] = "_"
       /\ NoLineEnd(filename)
    \/ /\ Stamped(filename)
       /\ Len(filename) > 23
       /\ filename[18] = "-"
       /\ \A k \in 19..22 : filename[k] \in Digit
       /\ filename[23] = "_"
       /\ NoLineEnd(filename)
    \/ /\ Len(filename) > 15
       /\ SubSeq(filename, 1, 15) = Zeros14 \o <<"_">>
       /\ NoLineEnd(filename)

\* the name part of an entry name of one of the grammars: what follows the
\* first '_'
NamePart(filename) ==
    LET u == CHOOSE k \in 1..Len(filename) :
                 filename[k] = "_" /\ \A j \in 1..(k - 1) : filename[j] # "_"
    IN  SubSeq(filename, u + 1, Len(filename))

\* C18: parse_migration_filename returns a pair exactly for the names of the
\* three grammars, with the date and time of the name (1970-01-01 00:00:00 for
\* the sentinel) and the name part; the list of get_migration_files holds
\* exactly the directories with such names that are not hidden; and the
\* directories it skips leave the run as it is without them: a run whose
\* accepted entries pass the three checks exits with 0.  The list is looked at
\* in the state get_migration_files returns to.
C18_ParseAcceptsThreeGrammars ==
    /\ (dir_exists /\ (pc = "order" \/ (pc = "validated" /\ migrations = <<>>))) =>
        /\ \A i \in 1..Len(listing) :
              LET filename == DirLib[listing[i]].name
                  parsed   == parse_migration_filename(filename)
              IN  /\ parsed.ok = InGrammar(filename)
                  /\ parsed.ok =>
                        /\ parsed.name = NamePart(filename)
                        /\ parsed.timestamp =
                              (IF filename[1] = "0" /\ SubSeq(filename, 1, 14) = Zeros14
                               THEN DateTime(1970, 1, 1, 0, 0, 0)
                               ELSE Fields(filename))
        /\ {migrations[k][3] : k \in 1..Len(migrations)}
              = {DirLib[listing[i]].name : i \in {j \in 1..Len(listing) :
                     /\ Considered(DirLib[listing[j]])
                     /\ InGrammar(DirLib[listing[j]].name)}}
        /\ Len(migrations) + Len(Skipped(listing))
              = Cardinality({i \in 1..Len(listing) : Considered(DirLib[listing[i]])})
    /\ (/\ pc = "validated"
        /\ migrations # <<>>
        /\ ~SameTimestamp(migrations)
        /\ \A k \in 1..Len(migrations) : Len(migrations[k][2]) >= 3)
          => exit_status = 0

\* an entry of the second grammar and the sentinel accepted, a directory with
\* 29 February 2023 skipped, and the run passes
C18_Witness ==
    /\ pc = "validated"
    /\ Len(listing) = 3
    /\ Len(migrations) = 2
    /\ Len(Skipped(listing)) = 1
    /\ \E k \in 1..2 : migrations[k][1] = DateTime(1970, 1, 1, 0, 0, 0)
    /\ \E k \in 1..2 : migrations[k][3][18] = "-"
    /\ exit_status = 0

\* C19: main returns 0 exactly when the list of accepted entries is not empty
\* and the order check, the duplicate check and the naming check all return
\* True on it, and 1 otherwise; with a list that is not empty the three checks
\* are all called, whatever the earlier ones returned.
C19_ExitStatus ==
    pc = "validated" =>
        /\ exit_status \in {0, 1}
        /\ (exit_status = 0) =
              (/\ migrations # <<>>
               /\ check_migration_order(migrations)
               /\ check_for_duplicate_timestamps(migrations)
               /\ check_migration_naming_conventions(migrations))
        /\ IF migrations = <<>>
           THEN order_result = NotRun /\ duplicate_result = NotRun /\ naming_result = NotRun
           ELSE /\ order_result = Returned(check_migration_order(migrations))
                /\ duplicate_result = Returned(check_for_duplicate_timestamps(migrations))
                /\ naming_result = Returned(check_migration_naming_conventions(migrations))

\* a run whose order check failed and whose naming check, called after it,
\* failed as well
C19_Witness ==
    /\ pc = "validated"
    /\ order_result = Returned(FALSE)
    /\ duplicate_result = Returned(FALSE)
    /\ naming_result = Returned(FALSE)
    /\ exit_status = 1

\* the entries of the listing that get_migration_files accepts, in the order
\* of the listing
Accepted(items) ==
    SelectSeq(items, LAMBDA i : Considered(DirLib[i])
                                /\ parse_migration_filename(DirLib[i].name).ok)

\* their names
AcceptedNames(items) ==
    LET acc == Accepted(items)
    IN  [i \in 1..Len(acc) |-> DirLib[acc[i]].name]

\* the listing gives an accepted entry after one of a later date and time
LaterListedFirst(items) ==
    LET names == AcceptedNames(items)
        stamp == [i \in 1..Len(names) |-> parse_migration_filename(names[i]).timestamp]
    IN  \E i, j \in 1..Len(names) : i < j /\ Before(stamp[j], stamp[i])

HasSequence(filename) == Match2(filename).ok /\ strptime(SubSeq(filename, 1, 17)).ok

\* the pairs i < j of names that have one date and time and different
\* sequence numbers
SequencePairs(names) ==
    LET seq == [i \in 1..Len(names) |-> HasSequence(names[i])]
    IN  {p \in (1..Len(names)) \X (1..Len(names)) :
            /\ p[1] < p[2]
            /\ seq[p[1]]
            /\ seq[p[2]]
            /\ SubSeq(names[p[1]], 1, 17) = SubSeq(names[p[2]], 1, 17)
            /\ SubSeq(names[p[1]], 19, 22) # SubSeq(names[p[2]], 19, 22)}

\* the place of the entry of that name in the list
PlaceOf(ms, path) == CHOOSE k \in 1..Len(ms) : ms[k][3] = path

\* C22: two entries with the same date and time and different sequence numbers
\* get equal timestamps, the date and time alone; in the sorted list they stand
\* in the order of the listing, whatever their sequence numbers; and the order
\* check and the duplicate check return False, so main exits with 1.
C22_SequenceDiscarded ==
    (pc \in {"order", "duplicates", "naming", "report", "validated"}
     /\ migrations # <<>>) =>
        LET names == AcceptedNames(listing)
        IN  \A p \in SequencePairs(names) :
                /\ parse_migration_filename(names[p[1]]).timestamp = Fields(names[p[1]])
                /\ parse_migration_filename(names[p[1]]).timestamp
                      = parse_migration_filename(names[p[2]]).timestamp
                /\ PlaceOf(migrations, names[p[1]]) < PlaceOf(migrations, names[p[2]])
                /\ order_result.ran => order_result = Returned(FALSE)
                /\ duplicate_result.ran => duplicate_result = Returned(FALSE)
                /\ pc = "validated" => exit_status = 1

\* sequence 0002 listed before sequence 0001 of the same date and time: the
\* sorted list keeps 0002 first and the run fails
C22_Witness ==
    /\ pc = "validated"
    /\ order_result = Returned(FALSE)
    /\ duplicate_result = Returned(FALSE)
    /\ exit_status = 1
    /\ \E k \in 2..Len(migrations) :
          /\ HasSequence(migrations[k][3]) /\ HasSequence(migrations[k - 1][3])
          /\ Num(SubSeq(migrations[k - 1][3], 19, 22)) > Num(SubSeq(migrations[k][3], 19, 22))
    /\ LET names == AcceptedNames(listing)
       IN  \E p \in SequencePairs(names) :
              Num(SubSeq(names[p[1]], 19, 22)) > Num(SubSeq(names[p[2]], 19, 22))

-----------------------------------------------------------------------------
(* parse_xbrl_with_local_dts *)

\* the call has returned a dictionary and no exception leaves it
ReturnedDict == exc = "none" /\ result.is_dict

\* the file the caller named as output_file_path holds the whole result
OutputWritten ==
    LET at == Resolve(call.output_file_path, call.cwd)
    IN  at \in DOMAIN fs /\ fs[at] = "result"

\* the directory made by tempfile.mkdtemp is gone, with all it held
TempDirRemoved == TempDir \notin dirs /\ \A l \in DOMAIN fs : l.dir # TempDir

\* C23: when parse_xbrl_with_local_dts has returned, whatever failed on the
\* way, no exception leaves it and it has returned a dictionary; "success" is
\* true only if the output file was written; the temporary directory has been
\* removed; and the working directory is the one in effect at the call.
C23_ParseReturnsCleanly ==
    pc = "returned" =>
        /\ ReturnedDict
        /\ result.success => OutputWritten
        /\ TempDirRemoved
        /\ cwd = call.cwd

====
